---------------------------- MODULE Spec2Model ----------------------------
(***************************************************************************)
(* A model of the game-matching core of AmericanFootballForecastAutomation *)
(* (src/matchers/matcher_nfl.py, src/matchers/matcher_ncaaf.py).           *)
(*                                                                         *)
(* Python strings are sequences of one-character strings, so that the      *)
(* normalizers and the similarity scorers are computed character by        *)
(* character, as the code computes them.  Python dicts are TLA+ functions  *)
(* whose DOMAIN is the set of keys that are present.                       *)
(***************************************************************************)
EXTENDS Integers, Sequences, FiniteSets, TLC

(***************************************************************************)
(* 1. Python str operations                                                *)
(***************************************************************************)

\* The characters of the model's names, in code-point order (sorted() and
\* str comparison order tokens by code point).
CharOrder ==
    << " ", ",", "0", "1", "2", "3", "4", "5", "6", "7", "8", "9",
       "A", "B", "C", "D", "E", "F", "G", "H", "I", "J", "K", "L", "M",
       "N", "O", "P", "Q", "R", "S", "T", "U", "V", "W", "X", "Y", "Z",
       "a", "b", "c", "d", "e", "f", "g", "h", "i", "j", "k", "l", "m",
       "n", "o", "p", "q", "r", "s", "t", "u", "v", "w", "x", "y", "z" >>

Ord(c) == CHOOSE i \in 1..Len(CharOrder) : CharOrder[i] = c

UpperChars ==
    << "A", "B", "C", "D", "E", "F", "G", "H", "I", "J", "K", "L", "M",
       "N", "O", "P", "Q", "R", "S", "T", "U", "V", "W", "X", "Y", "Z" >>

LowerChars ==
    << "a", "b", "c", "d", "e", "f", "g", "h", "i", "j", "k", "l", "m",
       "n", "o", "p", "q", "r", "s", "t", "u", "v", "w", "x", "y", "z" >>

\* str.lower() on one character
LowerChar(c) ==
    IF \E i \in 1..Len(UpperChars) : UpperChars[i] = c
    THEN LowerChars[CHOOSE i \in 1..Len(UpperChars) : UpperChars[i] = c]
    ELSE c

\* str.lower()
Lower(s) == [i \in 1..Len(s) |-> LowerChar(s[i])]

\* s[lo-1:hi] of Python, with 1-based inclusive positions lo..hi
Slice(s, lo, hi) == IF lo > hi THEN << >> ELSE SubSeq(s, lo, hi)

\* str.strip(): leading and trailing whitespace removed
Strip(s) ==
    LET nonws == {i \in 1..Len(s) : s[i] # " "}
    IN  IF nonws = {} THEN << >>
        ELSE Slice(s, CHOOSE i \in nonws : \A j \in nonws : i <= j,
                      CHOOSE i \in nonws : \A j \in nonws : i >= j)

\* whether sub occurs in s at 1-based position p
OccursAt(s, sub, p) ==
    /\ p >= 1
    /\ p + Len(sub) - 1 <= Len(s)
    /\ \A k \in 1..Len(sub) : s[p + k - 1] = sub[k]

\* sub in s
Contains(s, sub) == \E p \in 1..(Len(s) + 1) : OccursAt(s, sub, p)

\* str.find(sub), 1-based; 0 when sub does not occur (Python's -1)
Find(s, sub) ==
    IF Contains(s, sub)
    THEN CHOOSE p \in 1..(Len(s) + 1) :
            /\ OccursAt(s, sub, p)
            /\ \A q \in 1..(p - 1) : ~OccursAt(s, sub, q)
    ELSE 0

\* str.startswith / str.endswith
StartsWith(s, prefix) == OccursAt(s, prefix, 1)

EndsWith(s, suffix) ==
    Len(suffix) <= Len(s) /\ OccursAt(s, suffix, Len(s) - Len(suffix) + 1)

\* str.replace(old, new): non-overlapping occurrences, left to right
RECURSIVE Replace(_, _, _)
Replace(s, old, new) ==
    LET p == Find(s, old)
    IN  IF p = 0 \/ old = << >> THEN s
        ELSE Slice(s, 1, p - 1) \o new
             \o Replace(Slice(s, p + Len(old), Len(s)), old, new)

\* str.split(): the maximal runs of non-whitespace characters
RECURSIVE Split(_)
Split(s) ==
    LET t == Strip(s)
        sp == Find(t, << " " >>)
    IN  IF t = << >> THEN << >>
        ELSE IF sp = 0 THEN << t >>
        ELSE << Slice(t, 1, sp - 1) >> \o Split(Slice(t, sp + 1, Len(t)))

\* " ".join(tokens)
RECURSIVE Join(_)
Join(tokens) ==
    IF tokens = << >> THEN << >>
    ELSE IF Len(tokens) = 1 THEN tokens[1]
    ELSE tokens[1] \o << " " >> \o Join(Tail(tokens))

\* a < b in Python's str order (code points, then length)
RECURSIVE StrLess(_, _)
StrLess(a, b) ==
    IF b = << >> THEN FALSE
    ELSE IF a = << >> THEN TRUE
    ELSE IF a[1] # b[1] THEN Ord(a[1]) < Ord(b[1])
    ELSE StrLess(Tail(a), Tail(b))

\* sorted(set_of_strings)
RECURSIVE Sorted(_)
Sorted(S) ==
    IF S = {} THEN << >>
    ELSE LET m == CHOOSE x \in S : \A y \in S \ {x} : StrLess(x, y)
         IN  << m >> \o Sorted(S \ {m})

\* A team-name value that is not a str and is truthy (a JSON number such as
\* 7): `.strip()` raises AttributeError on it.
NonStringName == << "<int>" >>

IsStr(v) == v # NonStringName

(***************************************************************************)
(* 2. Name Normalizer                                                      *)
(***************************************************************************)

\* NFLGameMatcher.normalize_team_name: the closed list of mascot names
nfl_teams ==
    << <<"R", "a", "i", "d", "e", "r", "s">>,
       <<"R", "a", "v", "e", "n", "s">>,
       <<"B", "i", "l", "l", "s">>,
       <<"B", "e", "n", "g", "a", "l", "s">>,
       <<"B", "r", "o", "w", "n", "s">>,
       <<"B", "r", "o", "n", "c", "o", "s">>,
       <<"T", "e", "x", "a", "n", "s">>,
       <<"C", "o", "l", "t", "s">>,
       <<"J", "a", "g", "u", "a", "r", "s">>,
       <<"C", "h", "i", "e", "f", "s">>,
       <<"C", "h", "a", "r", "g", "e", "r", "s">>,
       <<"D", "o", "l", "p", "h", "i", "n", "s">>,
       <<"P", "a", "t", "r", "i", "o", "t", "s">>,
       <<"J", "e", "t", "s">>,
       <<"S", "t", "e", "e", "l", "e", "r", "s">>,
       <<"T", "i", "t", "a", "n", "s">>,
       <<"C", "o", "w", "b", "o", "y", "s">>,
       <<"G", "i", "a", "n", "t", "s">>,
       <<"E", "a", "g", "l", "e", "s">>,
       <<"C", "o", "m", "m", "a", "n", "d", "e", "r", "s">>,
       <<"B", "e", "a", "r", "s">>,
       <<"L", "i", "o", "n", "s">>,
       <<"P", "a", "c", "k", "e", "r", "s">>,
       <<"V", "i", "k", "i", "n", "g", "s">>,
       <<"F", "a", "l", "c", "o", "n", "s">>,
       <<"P", "a", "n", "t", "h", "e", "r", "s">>,
       <<"S", "a", "i", "n", "t", "s">>,
       <<"B", "u", "c", "c", "a", "n", "e", "e", "r", "s">>,
       <<"C", "a", "r", "d", "i", "n", "a", "l", "s">>,
       <<"R", "a", "m", "s">>,
       <<"4", "9", "e", "r", "s">>,
       <<"S", "e", "a", "h", "a", "w", "k", "s">> >>

\* a mascot normalization that drops the leading word of a name that ends
\* in a mascot, instead of keeping the mascot only
NFL_normalize_team_name_drops_first_word(team_name) ==
    IF team_name = << >> THEN team_name
    ELSE LET name == Strip(team_name)
             parts == Split(name)
             last_word == parts[Len(parts)]
             name2 ==
                 IF /\ Contains(name, << " " >>)
                    /\ Len(parts) > 1
                    /\ \E t \in 1..Len(nfl_teams) :
                           Lower(nfl_teams[t]) = Lower(last_word)
                 THEN Join(Tail(parts))
                 ELSE name
         IN  Strip(Lower(name2))

\* NFLGameMatcher.normalize_team_name, for a str argument
NFL_normalize_team_name(team_name) ==
    IF team_name = << >> THEN team_name
    ELSE LET name == Strip(team_name)
             parts == Split(name)
             last_word == parts[Len(parts)]
             name2 ==
                 IF /\ Contains(name, << " " >>)
                    /\ Len(parts) > 1
                    /\ \E t \in 1..Len(nfl_teams) :
                           Lower(nfl_teams[t]) = Lower(last_word)
                 THEN last_word
                 ELSE name
         IN  Strip(Lower(name2))

\* GameMatcher.CAMPUS_KEYWORDS
CAMPUS_KEYWORDS ==
    << <<"B", "e", "r", "k", "e", "l", "e", "y">>,
       <<"L", "o", "s", " ", "A", "n", "g", "e", "l", "e", "s">>,
       <<"S", "a", "n", "t", "a", " ", "B", "a", "r", "b", "a", "r", "a">>,
       <<"S", "a", "n", "t", "a", " ", "C", "r", "u", "z">>,
       <<"R", "i", "v", "e", "r", "s", "i", "d", "e">>,
       <<"D", "a", "v", "i", "s">>,
       <<"I", "r", "v", "i", "n", "e">>,
       <<"M", "e", "r", "c", "e", "d">>,
       <<"B", "o", "u", "l", "d", "e", "r">>,
       <<"C", "o", "l", "o", "r", "a", "d", "o", " ", "S", "p", "r", "i", "n", "g", "s">>,
       <<"A", "u", "s", "t", "i", "n">>,
       <<"A", "r", "l", "i", "n", "g", "t", "o", "n">>,
       <<"D", "a", "l", "l", "a", "s">>,
       <<"E", "l", " ", "P", "a", "s", "o">>,
       <<"S", "a", "n", " ", "A", "n", "t", "o", "n", "i", "o">>,
       <<"C", "h", "a", "p", "e", "l", " ", "H", "i", "l", "l">>,
       <<"C", "h", "a", "r", "l", "o", "t", "t", "e">>,
       <<"G", "r", "e", "e", "n", "s", "b", "o", "r", "o">>,
       <<"W", "i", "l", "m", "i", "n", "g", "t", "o", "n">>,
       <<"A", "s", "h", "e", "v", "i", "l", "l", "e">>,
       <<"A", "m", "h", "e", "r", "s", "t">>,
       <<"L", "o", "w", "e", "l", "l">>,
       <<"B", "o", "s", "t", "o", "n">>,
       <<"D", "a", "r", "t", "m", "o", "u", "t", "h">>,
       <<"L", "a", "s", " ", "V", "e", "g", "a", "s">>,
       <<"R", "e", "n", "o">>,
       <<"M", "a", "n", "o", "a">>,
       <<"H", "i", "l", "o">>,
       <<"L", "a", "f", "a", "y", "e", "t", "t", "e">>,
       <<"M", "o", "n", "r", "o", "e">>,
       <<"S", "h", "r", "e", "v", "e", "p", "o", "r", "t">>,
       <<"B", "i", "r", "m", "i", "n", "g", "h", "a", "m">>,
       <<"H", "u", "n", "t", "s", "v", "i", "l", "l", "e">>,
       <<"P", "a", "r", "k">>,
       <<"C", "o", "l", "l", "e", "g", "e", " ", "S", "t", "a", "t", "i", "o", "n">>,
       <<"S", "t", "o", "r", "r", "s">>,
       <<"K", "e", "n", "n", "e", "s", "a", "w">>,
       <<"L", "u", "b", "b", "o", "c", "k">> >>

\* one iteration of the loop over CAMPUS_KEYWORDS
RemoveKeyword(name, keyword) ==
    IF EndsWith(name, << " " >> \o keyword)
    THEN Slice(name, 1, Len(name) - Len(keyword) - 1)
    ELSE IF Contains(name, << " " >> \o keyword \o << " " >>)
    THEN Replace(name, << " " >> \o keyword \o << " " >>, << " " >>)
    ELSE name

\* the loop over CAMPUS_KEYWORDS, from keyword k on
RECURSIVE RemoveKeywords(_, _)
RemoveKeywords(name, k) ==
    IF k > Len(CAMPUS_KEYWORDS) THEN name
    ELSE LET next == RemoveKeyword(name, CAMPUS_KEYWORDS[k])
         IN  IF next = name THEN RemoveKeywords(name, k + 1)
             ELSE RemoveKeywords(next, k + 1)

UniversityAt == <<"u", "n", "i", "v", "e", "r", "s", "i", "t", "y", " ", "a", "t", " ">>

UniversityOf == <<"U", "n", "i", "v", "e", "r", "s", "i", "t", "y", " ", "o", "f", " ">>

\* GameMatcher.normalize_team_name, for a str argument
NCAAF_normalize_team_name(team_name) ==
    IF team_name = << >> THEN team_name
    ELSE LET name == Strip(team_name)
             name1 ==
                 IF StartsWith(Lower(name), UniversityAt)
                 THEN UniversityOf \o Slice(name, Len(UniversityAt) + 1, Len(name))
                 ELSE name
             name2 ==
                 IF Contains(name1, << "," >>)
                 THEN Slice(name1, 1, Find(name1, << "," >>) - 1)
                 ELSE name1
             name3 ==
                 IF Contains(Lower(name2), << " ", "a", "t", " " >>)
                 THEN Slice(name2, 1,
                            Find(Lower(name2), << " ", "a", "t", " " >>) - 1)
                 ELSE name2
         IN  Strip(RemoveKeywords(name3, 1))

(***************************************************************************)
(* 3. Similarity Scorer (fuzzywuzzy.fuzz, as the matchers call it)         *)
(*                                                                         *)
(* fuzz.ratio is int(round(100 * 2M / T)) with M the size of the matching  *)
(* blocks of difflib.SequenceMatcher and T the total length; rounding is   *)
(* half to even.  With python-Levenshtein installed fuzzywuzzy counts M    *)
(* from an edit script instead; on the names of this model the two agree   *)
(* on every pair but those of the home/away-exchanged institutional        *)
(* candidate (ncaaf_swapped: 19 and 26 here, 32 and 32 there).  The model  *)
(* follows difflib.                                                        *)
(***************************************************************************)

\* the length of the longest common run of a from i and b from j, within
\* a[..ahi] and b[..bhi]
RECURSIVE RunLength(_, _, _, _, _, _)
RunLength(a, b, i, j, ahi, bhi) ==
    IF i > ahi \/ j > bhi \/ a[i] # b[j] THEN 0
    ELSE 1 + RunLength(a, b, i + 1, j + 1, ahi, bhi)

\* SequenceMatcher.find_longest_match(alo, ahi, blo, bhi): the longest
\* matching block, the earliest in a and then the earliest in b among the
\* longest; <<i, j, k>> with k = 0 when nothing matches
LongestMatch(a, b, alo, ahi, blo, bhi) ==
    LET blocks == {<<i, j, RunLength(a, b, i, j, ahi, bhi)>> :
                      i \in alo..ahi, j \in blo..bhi}
    IN  IF blocks = {} THEN <<alo, blo, 0>>
        ELSE CHOOSE m \in blocks : \A o \in blocks :
                \/ m[3] > o[3]
                \/ m[3] = o[3] /\ m[1] < o[1]
                \/ m[3] = o[3] /\ m[1] = o[1] /\ m[2] <= o[2]

\* SequenceMatcher.get_matching_blocks: the total size of the matching
\* blocks found by splitting around the longest match, recursively
RECURSIVE MatchingSize(_, _, _, _, _, _)
MatchingSize(a, b, alo, ahi, blo, bhi) ==
    LET m == LongestMatch(a, b, alo, ahi, blo, bhi)
    IN  IF m[3] = 0 THEN 0
        ELSE MatchingSize(a, b, alo, m[1] - 1, blo, m[2] - 1)
             + m[3]
             + MatchingSize(a, b, m[1] + m[3], ahi, m[2] + m[3], bhi)

\* utils.intr(100 * (2.0 * matches / length)): int(round(x)), where
\* Python 3 rounds a half to the even integer
RoundedPercent(matches, length) ==
    LET q == (200 * matches) \div length
        r == (200 * matches) % length
    IN  IF 2 * r > length THEN q + 1
        ELSE IF 2 * r < length THEN q
        ELSE IF q % 2 = 0 THEN q ELSE q + 1

\* fuzz.ratio(s1, s2) on two str: 100 when equal, 0 when either is empty
\* (the check_for_equivalence and check_empty_string decorators), else the
\* SequenceMatcher ratio as a rounded percentage
ratio(s1, s2) ==
    IF s1 = s2 THEN 100
    ELSE IF Len(s1) = 0 \/ Len(s2) = 0 THEN 0
    ELSE RoundedPercent(MatchingSize(s1, s2, 1, Len(s1), 1, Len(s2)),
                        Len(s1) + Len(s2))

\* utils.full_process: characters that are neither letters nor digits
\* become whitespace, then lower(), then strip()
full_process(s) ==
    Strip(Lower([i \in 1..Len(s) |-> IF s[i] = "," THEN " " ELSE s[i]]))

Max3(x, y, z) ==
    IF x >= y /\ x >= z THEN x ELSE IF y >= z THEN y ELSE z

\* fuzz.token_set_ratio(s1, s2) on two str
token_set_ratio(s1, s2) ==
    LET p1 == full_process(s1)
        p2 == full_process(s2)
        tokens1 == {Split(p1)[i] : i \in 1..Len(Split(p1))}
        tokens2 == {Split(p2)[i] : i \in 1..Len(Split(p2))}
        sorted_sect == Join(Sorted(tokens1 \cap tokens2))
        sorted_1to2 == Join(Sorted(tokens1 \ tokens2))
        sorted_2to1 == Join(Sorted(tokens2 \ tokens1))
        combined_1to2 == Strip(sorted_sect \o << " " >> \o sorted_1to2)
        combined_2to1 == Strip(sorted_sect \o << " " >> \o sorted_2to1)
    IN  IF Len(p1) = 0 \/ Len(p2) = 0 THEN 0
        ELSE Max3(ratio(Strip(sorted_sect), combined_1to2),
                  ratio(Strip(sorted_sect), combined_2to1),
                  ratio(combined_1to2, combined_2to1))

(***************************************************************************)
(* 4. Records                                                              *)
(*                                                                         *)
(* A Python dict is a function whose DOMAIN holds the keys present.  A     *)
(* list entry that is not a dict, and None, are the two values below.      *)
(***************************************************************************)

\* a list entry that is not a JSON object (here a string)
NonDictEntry == [python_type |-> "str"]

\* Python's None
None == [python_type |-> "NoneType"]

\* isinstance(game, dict)
IsDict(game) == "python_type" \notin DOMAIN game

\* game.copy() followed by the exchanges of lines 143-149 of matcher_nfl.py:
\* the team names always, each payload pair only when both keys are present
reversed_game(game) ==
    LET teams == [game EXCEPT !["away_team"] = game["home_team"],
                              !["home_team"] = game["away_team"]]
        scores ==
            IF {"predicted_score_away", "predicted_score_home"} \subseteq DOMAIN teams
            THEN [teams EXCEPT
                    !["predicted_score_away"] = teams["predicted_score_home"],
                    !["predicted_score_home"] = teams["predicted_score_away"]]
            ELSE teams
    IN  IF {"spread_away", "spread_home"} \subseteq DOMAIN scores
        THEN [scores EXCEPT !["spread_away"] = scores["spread_home"],
                            !["spread_home"] = scores["spread_away"]]
        ELSE scores

\* the scans skip an entry that is not a dict or lacks a team key ...
SkippedByKeys(game) ==
    \/ ~IsDict(game)
    \/ "away_team" \notin DOMAIN game
    \/ "home_team" \notin DOMAIN game

\* ... and an entry whose processing raises inside the try block:
\* normalize_team_name calls .strip() on a truthy value that is not a str
RaisesInTry(game) == ~IsStr(game["away_team"]) \/ ~IsStr(game["home_team"])

\* what find_matching_game hands back: the value returned (None or a dict)
\* or "raise"; index, swapped and pass record where the value came from
\* (index 0: from no candidate)
Returned(value, index, swapped, pass) ==
    [outcome |-> "return", value |-> value, index |-> index,
     swapped |-> swapped, pass |-> pass]

Raised == [outcome |-> "raise", value |-> None, index |-> 0,
           swapped |-> FALSE, pass |-> "none"]

ReturnedNone == Returned(None, 0, FALSE, "none")

(***************************************************************************)
(* 5. The team names of the model, and the normalizers and scorers         *)
(*    tabulated over them                                                  *)
(***************************************************************************)

nfl_BaltimoreRavens == <<"B", "a", "l", "t", "i", "m", "o", "r", "e", " ", "R", "a", "v", "e", "n", "s">>

nfl_Bills == <<"B", "i", "l", "l", "s">>

nfl_Ravens == <<"R", "a", "v", "e", "n", "s">>

nfl_bills_padded == <<" ", "b", "i", "l", "l", "s", " ">>

nfl_rave == <<"r", "a", "v", "e">>

nfl_billz == <<"b", "i", "l", "l", "z">>

nfl_ravenz == <<"r", "a", "v", "e", "n", "z">>

nfl_bil == <<"b", "i", "l">>

nfl_bilss == <<"b", "i", "l", "s", "s">>

nfl_ravenss == <<"r", "a", "v", "e", "n", "s", "s">>

nfl_raven == <<"r", "a", "v", "e", "n">>

nfl_x == <<"x">>

\* the str team names of the mascot domain
NFLTeamNames ==
    {nfl_BaltimoreRavens,
     nfl_Bills,
     nfl_Ravens,
     nfl_bills_padded,
     nfl_rave,
     nfl_billz,
     nfl_ravenz,
     nfl_bil,
     nfl_bilss,
     nfl_ravenss,
     nfl_raven,
     nfl_x}

ncaaf_UniversityAtBuffalo == <<"U", "n", "i", "v", "e", "r", "s", "i", "t", "y", " ", "a", "t", " ", "B", "u", "f", "f", "a", "l", "o">>

ncaaf_OhioStateColumbus == <<"O", "h", "i", "o", " ", "S", "t", "a", "t", "e", ",", " ", "C", "o", "l", "u", "m", "b", "u", "s">>

ncaaf_UniversityOfBuffalo == <<"U", "n", "i", "v", "e", "r", "s", "i", "t", "y", " ", "o", "f", " ", "B", "u", "f", "f", "a", "l", "o">>

ncaaf_OhioStatePark == <<"O", "h", "i", "o", " ", "S", "t", "a", "t", "e", " ", "P", "a", "r", "k">>

ncaaf_Buffalo == <<"B", "u", "f", "f", "a", "l", "o">>

ncaaf_OhioStateUniversity == <<"O", "h", "i", "o", " ", "S", "t", "a", "t", "e", " ", "U", "n", "i", "v", "e", "r", "s", "i", "t", "y">>

ncaaf_UnivOfBuffalo == <<"U", "n", "i", "v", " ", "o", "f", " ", "B", "u", "f", "f", "a", "l", "o">>

ncaaf_OhioSt == <<"O", "h", "i", "o", " ", "S", "t">>

ncaaf_OregonState == <<"O", "r", "e", "g", "o", "n", " ", "S", "t", "a", "t", "e">>

ncaaf_OhioState == <<"O", "h", "i", "o", " ", "S", "t", "a", "t", "e">>

\* the str team names of the institutional domain
NCAAFTeamNames ==
    {ncaaf_UniversityAtBuffalo,
     ncaaf_OhioStateColumbus,
     ncaaf_UniversityOfBuffalo,
     ncaaf_OhioStatePark,
     ncaaf_Buffalo,
     ncaaf_OhioStateUniversity,
     ncaaf_UnivOfBuffalo,
     ncaaf_OhioSt,
     ncaaf_OregonState,
     ncaaf_OhioState}

\* NFLGameMatcher.normalize_team_name over the names of the model
NFL_normalized ==
    [name \in NFLTeamNames |-> NFL_normalize_team_name(name)] @@ << >>

\* the normalizer is applied again to names it has produced (match_games
\* normalizes the names of a matched record)
NFLNormalizedNames == {NFL_normalized[name] : name \in NFLTeamNames}

NFL_renormalized ==
    [name \in NFLNormalizedNames |-> NFL_normalize_team_name(name)] @@ << >>

NFL_normalize(name) ==
    IF name \in NFLTeamNames THEN NFL_normalized[name] ELSE NFL_renormalized[name]

\* fuzz.ratio over the normalized names
NFL_ratio ==
    [pair \in NFLNormalizedNames \X NFLNormalizedNames |->
        ratio(pair[1], pair[2])] @@ << >>

\* GameMatcher.normalize_team_name over the names of the model
NCAAF_normalized ==
    [name \in NCAAFTeamNames |-> NCAAF_normalize_team_name(name)] @@ << >>

NCAAFNormalizedNames == {NCAAF_normalized[name] : name \in NCAAFTeamNames}

NCAAF_renormalized ==
    [name \in NCAAFNormalizedNames |-> NCAAF_normalize_team_name(name)] @@ << >>

NCAAF_normalize(name) ==
    IF name \in NCAAFTeamNames THEN NCAAF_normalized[name]
    ELSE NCAAF_renormalized[name]

\* fuzz.token_set_ratio over the normalized names
NCAAF_token_set_ratio ==
    [pair \in NCAAFNormalizedNames \X NCAAFNormalizedNames |->
        token_set_ratio(pair[1], pair[2])] @@ << >>

\* normalize_team_name of the matcher of a domain
Normalize(d, name) ==
    IF d = "nfl" THEN NFL_normalize(name) ELSE NCAAF_normalize(name)

(***************************************************************************)
(* 6. Matcher: find_matching_game                                          *)
(***************************************************************************)

\* The value of a "games" entry: a list of entries, or a JSON value of
\* another type, which is truthy or not.
ListValue(items) == [type |-> "list", items |-> items, truthy |-> items # << >>]

OtherValue(truthy) == [type |-> "other", items |-> << >>, truthy |-> truthy]

\* an exact pass that looks at the natural orientation only
RECURSIVE NFL_exact_pass_natural_only(_, _, _, _)
NFL_exact_pass_natural_only(normalized_away, normalized_home, games, k) ==
    IF k > Len(games) THEN ReturnedNone
    ELSE IF SkippedByKeys(games[k]) \/ RaisesInTry(games[k])
    THEN NFL_exact_pass_natural_only(normalized_away, normalized_home, games, k + 1)
    ELSE IF /\ normalized_away = NFL_normalize(games[k]["away_team"])
            /\ normalized_home = NFL_normalize(games[k]["home_team"])
    THEN Returned(games[k], k, FALSE, "exact")
    ELSE NFL_exact_pass_natural_only(normalized_away, normalized_home, games, k + 1)

\* the exact pass of NFLGameMatcher.find_matching_game from entry k on
RECURSIVE NFL_exact_pass(_, _, _, _)
NFL_exact_pass(normalized_away, normalized_home, games, k) ==
    IF k > Len(games) THEN ReturnedNone
    ELSE IF SkippedByKeys(games[k]) \/ RaisesInTry(games[k])
    THEN NFL_exact_pass(normalized_away, normalized_home, games, k + 1)
    ELSE LET game == games[k]
             game_away == NFL_normalize(game["away_team"])
             game_home == NFL_normalize(game["home_team"])
         IN  IF normalized_away = game_away /\ normalized_home = game_home
             THEN Returned(game, k, FALSE, "exact")
             ELSE IF normalized_away = game_home /\ normalized_home = game_away
             THEN Returned(reversed_game(game), k, TRUE, "exact")
             ELSE NFL_exact_pass(normalized_away, normalized_home, games, k + 1)

\* the two combined scores of lines 170-173, doubled: the code halves the
\* sum of two integer ratios and compares the halves
NFL_score1(normalized_away, normalized_home, game) ==
    NFL_ratio[<<normalized_away, NFL_normalize(game["away_team"])>>]
    + NFL_ratio[<<normalized_home, NFL_normalize(game["home_team"])>>]

NFL_score2(normalized_away, normalized_home, game) ==
    NFL_ratio[<<normalized_away, NFL_normalize(game["home_team"])>>]
    + NFL_ratio[<<normalized_home, NFL_normalize(game["away_team"])>>]

\* whether the natural (the swapped) orientation replaces best_match, at
\* lines 175 and 178; best_score is doubled like the scores
NFL_takes_natural(score1, fuzzy_threshold, best_score) ==
    score1 >= 2 * fuzzy_threshold /\ score1 > best_score

NFL_takes_swapped(score2, fuzzy_threshold, best_score) ==
    score2 >= 2 * fuzzy_threshold /\ score2 > best_score

\* a fuzzy pass whose try block encloses the loop: the first entry that is
\* skipped ends the scan with the best match found so far
RECURSIVE NFL_fuzzy_pass_aborting(_, _, _, _, _, _, _)
NFL_fuzzy_pass_aborting(normalized_away, normalized_home, games, fuzzy_threshold, k, best_match, best_score) ==
    IF k > Len(games) THEN best_match
    ELSE IF SkippedByKeys(games[k]) \/ RaisesInTry(games[k])
    THEN best_match
    ELSE LET game == games[k]
             score1 == NFL_score1(normalized_away, normalized_home, game)
             score2 == NFL_score2(normalized_away, normalized_home, game)
         IN  IF NFL_takes_natural(score1, fuzzy_threshold, best_score)
             THEN NFL_fuzzy_pass_aborting(normalized_away, normalized_home, games,
                                 fuzzy_threshold, k + 1,
                                 Returned(game, k, FALSE, "fuzzy"), score1)
             ELSE IF NFL_takes_swapped(score2, fuzzy_threshold, best_score)
             THEN NFL_fuzzy_pass_aborting(normalized_away, normalized_home, games,
                                 fuzzy_threshold, k + 1,
                                 Returned(reversed_game(game), k, TRUE, "fuzzy"),
                                 score2)
             ELSE NFL_fuzzy_pass_aborting(normalized_away, normalized_home, games,
                                 fuzzy_threshold, k + 1, best_match, best_score)

\* the fuzzy pass of NFLGameMatcher.find_matching_game from entry k on,
\* with the best_match and (doubled) best_score found so far
RECURSIVE NFL_fuzzy_pass(_, _, _, _, _, _, _)
NFL_fuzzy_pass(normalized_away, normalized_home, games, fuzzy_threshold, k, best_match, best_score) ==
    IF k > Len(games) THEN best_match
    ELSE IF SkippedByKeys(games[k]) \/ RaisesInTry(games[k])
    THEN NFL_fuzzy_pass(normalized_away, normalized_home, games,
                        fuzzy_threshold, k + 1, best_match, best_score)
    ELSE LET game == games[k]
             score1 == NFL_score1(normalized_away, normalized_home, game)
             score2 == NFL_score2(normalized_away, normalized_home, game)
         IN  IF NFL_takes_natural(score1, fuzzy_threshold, best_score)
             THEN NFL_fuzzy_pass(normalized_away, normalized_home, games,
                                 fuzzy_threshold, k + 1,
                                 Returned(game, k, FALSE, "fuzzy"), score1)
             ELSE IF NFL_takes_swapped(score2, fuzzy_threshold, best_score)
             THEN NFL_fuzzy_pass(normalized_away, normalized_home, games,
                                 fuzzy_threshold, k + 1,
                                 Returned(reversed_game(game), k, TRUE, "fuzzy"),
                                 score2)
             ELSE NFL_fuzzy_pass(normalized_away, normalized_home, games,
                                 fuzzy_threshold, k + 1, best_match, best_score)

\* NFLGameMatcher.find_matching_game
NFL_find_matching_game(away_team, home_team, games_list, fuzzy_threshold) ==
    IF ~games_list.truthy \/ games_list.type # "list" THEN ReturnedNone
    ELSE IF ~IsStr(away_team) \/ ~IsStr(home_team) THEN Raised
    ELSE LET normalized_away == NFL_normalize(away_team)
             normalized_home == NFL_normalize(home_team)
             exact == NFL_exact_pass(normalized_away, normalized_home,
                                     games_list.items, 1)
         IN  IF exact.index # 0 THEN exact
             ELSE NFL_fuzzy_pass(normalized_away, normalized_home,
                                 games_list.items, fuzzy_threshold, 1,
                                 ReturnedNone, 0)

\* an exact pass that also looks at the swapped orientation, as the mascot
\* matcher does
RECURSIVE NCAAF_exact_pass_with_swap(_, _, _, _)
NCAAF_exact_pass_with_swap(normalized_away, normalized_home, games, k) ==
    IF k > Len(games) THEN ReturnedNone
    ELSE IF SkippedByKeys(games[k]) \/ RaisesInTry(games[k])
    THEN NCAAF_exact_pass_with_swap(normalized_away, normalized_home, games, k + 1)
    ELSE IF /\ normalized_away = NCAAF_normalize(games[k]["away_team"])
            /\ normalized_home = NCAAF_normalize(games[k]["home_team"])
    THEN Returned(games[k], k, FALSE, "exact")
    ELSE IF /\ normalized_away = NCAAF_normalize(games[k]["home_team"])
            /\ normalized_home = NCAAF_normalize(games[k]["away_team"])
    THEN Returned(reversed_game(games[k]), k, TRUE, "exact")
    ELSE NCAAF_exact_pass_with_swap(normalized_away, normalized_home, games, k + 1)

\* the exact pass of GameMatcher.find_matching_game from entry k on
RECURSIVE NCAAF_exact_pass(_, _, _, _)
NCAAF_exact_pass(normalized_away, normalized_home, games, k) ==
    IF k > Len(games) THEN ReturnedNone
    ELSE IF SkippedByKeys(games[k]) \/ RaisesInTry(games[k])
    THEN NCAAF_exact_pass(normalized_away, normalized_home, games, k + 1)
    ELSE IF /\ normalized_away = NCAAF_normalize(games[k]["away_team"])
            /\ normalized_home = NCAAF_normalize(games[k]["home_team"])
    THEN Returned(games[k], k, FALSE, "exact")
    ELSE NCAAF_exact_pass(normalized_away, normalized_home, games, k + 1)

\* a test that looks at the away similarity only
NCAAF_fuzzy_test_away_only(normalized_away, normalized_home, game, fuzzy_threshold) ==
    NCAAF_token_set_ratio[
        <<normalized_away, NCAAF_normalize(game["away_team"])>>]
    >= fuzzy_threshold

\* the test of lines 161-162 of matcher_ncaaf.py
NCAAF_fuzzy_test(normalized_away, normalized_home, game, fuzzy_threshold) ==
    /\ NCAAF_token_set_ratio[
           <<normalized_away, NCAAF_normalize(game["away_team"])>>]
       >= fuzzy_threshold
    /\ NCAAF_token_set_ratio[
           <<normalized_home, NCAAF_normalize(game["home_team"])>>]
       >= fuzzy_threshold

\* the fuzzy pass of GameMatcher.find_matching_game from entry k on
RECURSIVE NCAAF_fuzzy_pass(_, _, _, _, _)
NCAAF_fuzzy_pass(normalized_away, normalized_home, games, fuzzy_threshold, k) ==
    IF k > Len(games) THEN ReturnedNone
    ELSE IF SkippedByKeys(games[k]) \/ RaisesInTry(games[k])
    THEN NCAAF_fuzzy_pass(normalized_away, normalized_home, games,
                          fuzzy_threshold, k + 1)
    ELSE IF NCAAF_fuzzy_test(normalized_away, normalized_home, games[k],
                             fuzzy_threshold)
    THEN Returned(games[k], k, FALSE, "fuzzy")
    ELSE NCAAF_fuzzy_pass(normalized_away, normalized_home, games,
                          fuzzy_threshold, k + 1)

\* a matcher that runs the fuzzy pass before the exact pass
NCAAF_find_matching_game_fuzzy_first(away_team, home_team, games_list, fuzzy_threshold) ==
    IF ~games_list.truthy \/ games_list.type # "list" THEN ReturnedNone
    ELSE IF ~IsStr(away_team) \/ ~IsStr(home_team) THEN Raised
    ELSE LET normalized_away == NCAAF_normalize(away_team)
             normalized_home == NCAAF_normalize(home_team)
             fuzzy == NCAAF_fuzzy_pass(normalized_away, normalized_home,
                                       games_list.items, fuzzy_threshold, 1)
         IN  IF fuzzy.index # 0 THEN fuzzy
             ELSE NCAAF_exact_pass(normalized_away, normalized_home,
                                   games_list.items, 1)

\* GameMatcher.find_matching_game
NCAAF_find_matching_game(away_team, home_team, games_list, fuzzy_threshold) ==
    IF ~games_list.truthy \/ games_list.type # "list" THEN ReturnedNone
    ELSE IF ~IsStr(away_team) \/ ~IsStr(home_team) THEN Raised
    ELSE LET normalized_away == NCAAF_normalize(away_team)
             normalized_home == NCAAF_normalize(home_team)
             exact == NCAAF_exact_pass(normalized_away, normalized_home,
                                       games_list.items, 1)
         IN  IF exact.index # 0 THEN exact
             ELSE NCAAF_fuzzy_pass(normalized_away, normalized_home,
                                   games_list.items, fuzzy_threshold, 1)

\* find_matching_game of the matcher of a domain
find_matching_game(domain, away_team, home_team, games_list, fuzzy_threshold) ==
    IF domain = "nfl"
    THEN NFL_find_matching_game(away_team, home_team, games_list,
                                fuzzy_threshold)
    ELSE NCAAF_find_matching_game(away_team, home_team, games_list,
                                  fuzzy_threshold)

(***************************************************************************)
(* 7. Inputs of the model                                                  *)
(***************************************************************************)

\* the sequences over S of length at most n
SeqsUpTo(S, n) == UNION {[1..len -> S] : len \in 0..n}

\* the longest candidate list and the longest canonical list of the model
MaxCandidates == 2

MaxSheetGames == 2

Domains == {"nfl", "ncaaf"}

\* fuzzy_threshold: "Minimum fuzzy match score (0-100)"
FuzzyThresholds == 0..100

\* the defaults of the two constructors
NFL_default_fuzzy_threshold == 80

NCAAF_default_fuzzy_threshold == 85

\* Source candidates of the mascot domain, for the canonical game
\* Baltimore Ravens @ Bills (normalized: ravens @ bills).
nfl_exact_natural ==
    [away_team |-> nfl_Ravens, home_team |-> nfl_bills_padded,
     predicted_score_away |-> 20, predicted_score_home |-> 24]

nfl_exact_swapped ==
    [away_team |-> nfl_Bills, home_team |-> nfl_BaltimoreRavens,
     predicted_score_away |-> 20, predicted_score_home |-> 24,
     scraped_at |-> "2025-09-07T10:00:00"]

\* combined score 80 in the natural orientation: (80 + 80) / 2
nfl_fuzzy_80 ==
    [away_team |-> nfl_rave, home_team |-> nfl_billz,
     spread_away |-> 55, spread_home |-> 45]

\* combined score 79 in the natural orientation: (83 + 75) / 2
nfl_fuzzy_79 ==
    [away_team |-> nfl_ravenz, home_team |-> nfl_bil,
     spread_away |-> 55, spread_home |-> 45]

\* natural 17.5 = (18 + 17) / 2, swapped 86 = (92 + 80) / 2
nfl_fuzzy_swapped ==
    [away_team |-> nfl_bilss, home_team |-> nfl_ravenss,
     predicted_score_away |-> 17, predicted_score_home |-> 30]

\* the same names as nfl_fuzzy_swapped, hence the same scores, with a
\* payload of its own
nfl_fuzzy_swapped_tie ==
    [away_team |-> nfl_bilss, home_team |-> nfl_ravenss,
     spread_away |-> 40, spread_home |-> 60]

\* natural 45.5 = (91 + 0) / 2, swapped 0
nfl_fuzzy_half ==
    [away_team |-> nfl_raven, home_team |-> nfl_x,
     predicted_score_away |-> 10, predicted_score_home |-> 13]

\* both orientations score 0
nfl_unrelated ==
    [away_team |-> nfl_x, home_team |-> nfl_x,
     predicted_score_away |-> 3, predicted_score_home |-> 6]

\* exact in the swapped orientation, one field of the score pair absent
nfl_swapped_partial ==
    [away_team |-> nfl_Bills, home_team |-> nfl_Ravens,
     predicted_score_away |-> 20]

nfl_missing_home ==
    [away_team |-> nfl_Ravens,
     predicted_score_away |-> 20, predicted_score_home |-> 24]

nfl_non_string_away ==
    [away_team |-> NonStringName, home_team |-> nfl_Bills,
     predicted_score_away |-> 20, predicted_score_home |-> 24]

NFLCandidates ==
    {nfl_exact_natural, nfl_exact_swapped, nfl_fuzzy_80, nfl_fuzzy_79,
     nfl_fuzzy_swapped, nfl_fuzzy_swapped_tie, nfl_fuzzy_half, nfl_unrelated,
     nfl_swapped_partial, nfl_missing_home, nfl_non_string_away, NonDictEntry}

\* Source candidates of the institutional domain, for the canonical game
\* University at Buffalo @ Ohio State, Columbus (normalized: University of
\* Buffalo @ Ohio State).
ncaaf_exact ==
    [away_team |-> ncaaf_UniversityOfBuffalo, home_team |-> ncaaf_OhioStatePark,
     spread_away |-> 35, spread_home |-> 65]

\* away 100, home 100, neither exact
ncaaf_fuzzy_100 ==
    [away_team |-> ncaaf_Buffalo, home_team |-> ncaaf_OhioStateUniversity,
     predicted_score_away |-> 21, predicted_score_home |-> 31]

\* away 83, home 82
ncaaf_fuzzy_82 ==
    [away_team |-> ncaaf_UnivOfBuffalo, home_team |-> ncaaf_OhioSt,
     predicted_score_away |-> 14, predicted_score_home |-> 28]

\* away 100, home 73
ncaaf_fuzzy_home_73 ==
    [away_team |-> ncaaf_Buffalo, home_team |-> ncaaf_OregonState,
     predicted_score_away |-> 7, predicted_score_home |-> 9,
     scraped_at |-> "2025-09-06T09:00:00"]

\* equal to the canonical pair with home and away exchanged
ncaaf_swapped ==
    [away_team |-> ncaaf_OhioState, home_team |-> ncaaf_UniversityOfBuffalo,
     spread_away |-> 65, spread_home |-> 35]

ncaaf_missing_away ==
    [home_team |-> ncaaf_OhioState, spread_away |-> 35, spread_home |-> 65]

ncaaf_non_string_home ==
    [away_team |-> ncaaf_UniversityOfBuffalo, home_team |-> NonStringName,
     spread_away |-> 35, spread_home |-> 65]

NCAAFCandidates ==
    {ncaaf_exact, ncaaf_fuzzy_100, ncaaf_fuzzy_82, ncaaf_fuzzy_home_73,
     ncaaf_swapped, ncaaf_missing_away, ncaaf_non_string_home, NonDictEntry}

Candidates(domain) == IF domain = "nfl" THEN NFLCandidates ELSE NCAAFCandidates

\* the canonical pairs find_matching_game is called with: the game of the
\* domain, and the same game with a name that is not a str
CanonicalPairs(domain) ==
    IF domain = "nfl"
    THEN {<<nfl_BaltimoreRavens, nfl_Bills>>, <<NonStringName, nfl_Bills>>}
    ELSE {<<ncaaf_UniversityAtBuffalo, ncaaf_OhioStateColumbus>>,
          <<ncaaf_UniversityAtBuffalo, NonStringName>>}

\* the values of games_list: the candidate lists, and a value that is not
\* a list
GamesListValues(domain) ==
    {ListValue(items) : items \in SeqsUpTo(Candidates(domain), MaxCandidates)}
    \cup {OtherValue(TRUE)}

(***************************************************************************)
(* 8. Files, loaded data and the records of a run                          *)
(***************************************************************************)

\* What a path holds: nothing, text that is not JSON, a file that cannot be
\* read, JSON whose top level is not an object (here a list), or a JSON
\* object.
Absent == [kind |-> "absent"]

InvalidJSON == [kind |-> "invalid_json"]

Unreadable == [kind |-> "unreadable"]

NotMapping == [kind |-> "list"]

Mapping(data) == [kind |-> "mapping", data |-> data]

\* Python's {}
EmptyDict == << >>

\* load_json_file: the object of the file, {} in every other case
load_json_file(file) ==
    IF file.kind = "mapping" THEN file.data ELSE EmptyDict

\* dict.get(key): None when the key is absent
dict_get(data, key) == IF key \in DOMAIN data THEN data[key] ELSE None

\* bool(value) of a "games" value or None
Truthy(value) == IF "truthy" \in DOMAIN value THEN value.truthy ELSE FALSE

\* a preference that takes the LLM-processed file whenever it loads
load_preferred_when_present(llm_file, raw_file) ==
    IF llm_file.kind = "mapping" THEN llm_file.data
    ELSE load_json_file(raw_file)

\* one block of load_all_data: the LLM-processed file, and the scraped file
\* when that gave {} or no truthy "games"
load_preferred(llm_file, raw_file) ==
    LET data == load_json_file(llm_file)
    IN  IF DOMAIN data = {} \/ ~Truthy(dict_get(data, "games"))
        THEN load_json_file(raw_file)
        ELSE data

\* the source names of `sources`, in the order of the dict
NFL_sources ==
    <<"fantasynerds", "sportsline", "florio", "simms",
      "dimers", "oddshark", "espn", "dratings">>

NCAAF_sources == <<"dimers", "oddshark", "espn", "dratings">>

SourceSeq(d) == IF d = "nfl" THEN NFL_sources ELSE NCAAF_sources

SourceNames(d) == {SourceSeq(d)[n] : n \in 1..Len(SourceSeq(d))}

\* data.get('games', []) if data else []
source_games(data) ==
    IF DOMAIN data = {} THEN ListValue(<< >>)
    ELSE IF "games" \in DOMAIN data THEN data["games"]
    ELSE ListValue(<< >>)

\* an entry of the `sources` dict of match_games: each source name with the
\* games of the data loaded for that source
games_list_of_one_source(data_by_source, source_name) ==
    source_games(data_by_source["dratings"])

games_list_of(data_by_source, source_name) ==
    source_games(data_by_source[source_name])

\* the two guards at the head of match_games, which return {}
match_games_rejects(data) ==
    IF DOMAIN data = {} THEN TRUE
    ELSE IF "games" \notin DOMAIN data THEN TRUE
    ELSE data["games"].type # "list"

\* row numbers are JSON integers or JSON strings; str(row_number)
IntRow(number) == [int |-> number]

StrRow(text) == [str |-> text]

str_row_number(row_number) ==
    IF "int" \in DOMAIN row_number THEN ToString(row_number.int)
    ELSE row_number.str

\* the entries of sheets_data['games'] that the loop passes over
SheetGameSkipped(sheet_game) ==
    \/ ~IsDict(sheet_game)
    \/ "away_team" \notin DOMAIN sheet_game
    \/ "home_team" \notin DOMAIN sheet_game
    \/ "row_number" \notin DOMAIN sheet_game

\* ... and those whose processing raises inside the try block, at the
\* normalize_team_name calls that follow str(row_number)
SheetGameRaises(sheet_game) ==
    ~IsStr(sheet_game["away_team"]) \/ ~IsStr(sheet_game["home_team"])

\* `if match:` -- the match is attached
attaches_exact_only(match) == match.pass = "exact"

attaches(match) == match.value # None

\* match.copy() with both team names normalized
normalized_match(d, match) ==
    [match EXCEPT !["away_team"] = Normalize(d, match["away_team"]),
                  !["home_team"] = Normalize(d, match["home_team"])]

\* what find_matching_game hands back for each source, for one sheet game
matches_of(d, sheet_game, data_by_source, threshold) ==
    [source_name \in SourceNames(d) |->
        find_matching_game(d, sheet_game["away_team"], sheet_game["home_team"],
                           games_list_of(data_by_source, source_name),
                           threshold)]

\* matched_game: "sheets" and one key for every source with a match
matched_game_of(d, sheet_game, matches) ==
    [key \in {"sheets"} \cup {n \in SourceNames(d) : attaches(matches[n])} |->
        IF key = "sheets"
        THEN [away_team |-> Normalize(d, sheet_game["away_team"]),
              home_team |-> Normalize(d, sheet_game["home_team"])]
        ELSE normalized_match(d, matches[key].value)]

\* a store that keeps the value a key already has
dict_set_keeps_first(data, key, value) ==
    [name \in DOMAIN data \cup {key} |->
        IF name \in DOMAIN data THEN data[name] ELSE value]

\* The candidate list of a source after a sheet game was matched against
\* it.  The exchanges of a swapped match go to game.copy() and the
\* normalized names go to match.copy(); a list whose matched record took the
\* normalized names itself ...
games_written_in_place(d, games, match) ==
    IF match.index = 0 THEN games
    ELSE [games EXCEPT !.items[match.index] = normalized_match(d, match.value)]

\* ... and the list of the code, whose records keep their values
games_after_match(d, games, match) == games

\* the data of the sources after one sheet game was matched (a match comes
\* from a list under the key "games")
sources_after_matches(d, data_by_source, matches) ==
    [name \in DOMAIN data_by_source |->
        IF attaches(matches[name]) /\ "games" \in DOMAIN data_by_source[name]
        THEN [data_by_source[name] EXCEPT
                 !["games"] = games_after_match(d, @, matches[name])]
        ELSE data_by_source[name]]

\* dict[key] = value
dict_set(data, key, value) ==
    [name \in DOMAIN data \cup {key} |->
        IF name = key THEN value ELSE data[name]]

\* The sheet games of the model.  The canonical game of a domain is
\* CanonicalPairs; the same pairing recurs with home and away exchanged
\* (row 4, and under the JSON string "3", which str() maps to the key of
\* the JSON integer 3).
CanonicalAway(d) == IF d = "nfl" THEN nfl_BaltimoreRavens ELSE ncaaf_UniversityAtBuffalo

CanonicalHome(d) == IF d = "nfl" THEN nfl_Bills ELSE ncaaf_OhioStateColumbus

SheetGame(away, home, row) ==
    [away_team |-> away, home_team |-> home, row_number |-> row]

SheetGames(d) ==
    {SheetGame(CanonicalAway(d), CanonicalHome(d), IntRow(3)),
     SheetGame(CanonicalHome(d), CanonicalAway(d), IntRow(4)),
     SheetGame(CanonicalHome(d), CanonicalAway(d), StrRow("3")),
     [away_team |-> CanonicalAway(d), home_team |-> CanonicalHome(d)],
     NonDictEntry,
     SheetGame(NonStringName, CanonicalHome(d), IntRow(6))}

\* the candidates of the varied source of a run
RunCandidates(d) ==
    IF d = "nfl"
    THEN {nfl_exact_natural, nfl_fuzzy_80, nfl_swapped_partial, nfl_unrelated}
    ELSE {ncaaf_exact, ncaaf_fuzzy_100, ncaaf_swapped, ncaaf_fuzzy_home_73}

ExactCandidate(d) == IF d = "nfl" THEN nfl_exact_natural ELSE ncaaf_exact

FuzzyCandidate(d) == IF d = "nfl" THEN nfl_fuzzy_80 ELSE ncaaf_fuzzy_100

\* the two files of one source (or of the sheet)
FilePair(llm_file, raw_file) == [llm |-> llm_file, raw |-> raw_file]

GamesFile(items) == Mapping([games |-> ListValue(items)])

\* what a file can hold, with `items` as its list of games when it has one
FileContents(items) ==
    {Absent, InvalidJSON, Unreadable, NotMapping,
     Mapping(EmptyDict),
     Mapping([timestamp |-> "2025-09-07T10:00:00"]),
     Mapping([games |-> OtherValue(FALSE)]),
     Mapping([games |-> OtherValue(TRUE)]),
     GamesFile(<< >>),
     GamesFile(items)}

\* the source whose files vary, the source with a fixed list, and the rest
VariedSource(d) == SourceSeq(d)[1]

FixedSource(d) == SourceSeq(d)[Len(SourceSeq(d))]

FixedSourceFiles(d) ==
    FilePair(GamesFile(<<ExactCandidate(d)>>), GamesFile(<<ExactCandidate(d)>>))

\* the files of a run: those of the sheet, those of the varied source, the
\* fixed list for the fixed source, no file for any other source
FilesOf(d, sheet_files, varied_files) ==
    [name \in {"sheets"} \cup SourceNames(d) |->
        IF name = "sheets" THEN sheet_files
        ELSE IF name = VariedSource(d) THEN varied_files
        ELSE IF name = FixedSource(d) THEN FixedSourceFiles(d)
        ELSE FilePair(Absent, Absent)]

TwoSheetGames(d) ==
    <<SheetGame(CanonicalAway(d), CanonicalHome(d), IntRow(3)),
      SheetGame(CanonicalHome(d), CanonicalAway(d), IntRow(4))>>

OneSheetGame(d) == <<SheetGame(CanonicalAway(d), CanonicalHome(d), IntRow(3))>>

\* The file systems a run starts from: every sheet list against every list
\* of the varied source; every pair of files of the varied source; every
\* pair of files of the sheet.
RunFiles(d) ==
    {FilesOf(d, FilePair(GamesFile(sheet_items), Absent),
                FilePair(GamesFile(items), Absent)) :
        sheet_items \in SeqsUpTo(SheetGames(d), MaxSheetGames),
        items \in SeqsUpTo(RunCandidates(d), MaxCandidates)}
    \cup
    {FilesOf(d, FilePair(GamesFile(TwoSheetGames(d)), Absent),
                FilePair(llm_file, raw_file)) :
        llm_file \in FileContents(<<FuzzyCandidate(d)>>),
        raw_file \in FileContents(<<ExactCandidate(d)>>)}
    \cup
    {FilesOf(d, FilePair(llm_file, raw_file),
                FilePair(GamesFile(<<ExactCandidate(d)>>), Absent)) :
        llm_file \in FileContents(OneSheetGame(d)),
        raw_file \in FileContents(TwoSheetGames(d))}

(***************************************************************************)
(* 9. State                                                                *)
(***************************************************************************)

VARIABLES
    domain,             \* which matcher: "nfl" (NFLGameMatcher) or "ncaaf" (GameMatcher)
    fuzzy_threshold,    \* self.fuzzy_threshold
    call,               \* the arguments of a call of find_matching_game
    ret,                \* what that call handed back
    files,              \* the JSON files under the data directory
    sheets_data,        \* self.sheets_data
    sources_data,       \* self.<source>_data, by source name
    results,            \* the results dict of match_games
    sheet_index,        \* the position of the loop over sheets_data['games']
    attached_from,      \* history: for each row key, the sheet game that
                        \* wrote it and the candidate each source key is from
    output_file,        \* matched_games.json
    pc,                 \* where run() stands
    outcome,            \* how run() ended
    workflow_state,     \* the channels of the orchestrator's WorkflowState
    node,               \* the node of the workflow graph that runs next
    executed,           \* history: the nodes that ran, in order
    reported_errors,    \* history: the error messages the nodes produced
    fetch_calls,        \* the calls of fetch_with_retry on one scraper
    semaphore           \* the free permits of that scraper's semaphore

vars == <<domain, fuzzy_threshold, call, ret, files, sheets_data, sources_data,
          results, sheet_index, attached_from, output_file, pc, outcome,
          workflow_state, node, executed, reported_errors, fetch_calls,
          semaphore>>

orchestrator_vars == <<workflow_state, node, executed, reported_errors>>

scraper_vars == <<fetch_calls, semaphore>>

\* no workflow is invoked and no page is fetched
NoWorkflow ==
    /\ workflow_state = << >>
    /\ node = "none"
    /\ executed = << >>
    /\ reported_errors = << >>

NoFetch == fetch_calls = << >> /\ semaphore = 0

run_vars == <<files, sheets_data, sources_data, results, sheet_index,
              attached_from, output_file, pc, outcome>>

\* no call has been made
NotCalled == [outcome |-> "pending", value |-> None, index |-> 0,
              swapped |-> FALSE, pass |-> "none"]

NoCall == [away_team |-> << >>, home_team |-> << >>,
           games_list |-> ListValue(<< >>)]

(***************************************************************************)
(* 10. One call of find_matching_game on a constructed matcher             *)
(***************************************************************************)

\* the calls of the model: the canonical game of the domain against every
\* games_list value, and a canonical name that is not a str against the
\* lists of at most one candidate
Calls(d) ==
    {[away_team |-> pair[1], home_team |-> pair[2], games_list |-> games] :
        pair \in {p \in CanonicalPairs(d) : IsStr(p[1]) /\ IsStr(p[2])},
        games \in GamesListValues(d)}
    \cup
    {[away_team |-> pair[1], home_team |-> pair[2],
      games_list |-> ListValue(items)] :
        pair \in {p \in CanonicalPairs(d) : ~(IsStr(p[1]) /\ IsStr(p[2]))},
        items \in SeqsUpTo(Candidates(d), 1)}

\* a matcher on which run() is not called
NoRun ==
    /\ files = << >>
    /\ sheets_data = EmptyDict
    /\ sources_data = << >>
    /\ results = EmptyDict
    /\ sheet_index = 0
    /\ attached_from = << >>
    /\ output_file = Absent
    /\ pc = "idle"
    /\ outcome = "none"
    /\ NoWorkflow
    /\ NoFetch

FindInit ==
    /\ domain \in Domains
    /\ fuzzy_threshold \in FuzzyThresholds
    /\ call \in Calls(domain)
    /\ ret = NotCalled
    /\ NoRun

\* find_matching_game(away_team, home_team, games_list)
FindMatchingGame ==
    /\ ret = NotCalled
    /\ pc = "idle"
    /\ ret' = find_matching_game(domain, call.away_team, call.home_team,
                                 call.games_list, fuzzy_threshold)
    /\ UNCHANGED <<domain, fuzzy_threshold, call>>
    /\ UNCHANGED run_vars
    /\ UNCHANGED <<orchestrator_vars, scraper_vars>>

FindNext == FindMatchingGame

FindSpec == FindInit /\ [][FindNext]_vars

(***************************************************************************)
(* 11. Properties of find_matching_game (checked under FindSpec)           *)
(***************************************************************************)

\* the call has returned or raised
Done == ret.outcome # "pending"

\* both canonical names are str, as the signature of find_matching_game says
StrCall == IsStr(call.away_team) /\ IsStr(call.home_team)

\* the candidate list of the call
Items == call.games_list.items

\* a candidate the scans look at: a mapping with both team keys whose
\* names normalize without raising
WellFormed(game) ==
    /\ IsDict(game)
    /\ {"away_team", "home_team"} \subseteq DOMAIN game
    /\ IsStr(game["away_team"]) /\ IsStr(game["home_team"])

WellFormedIndices == {k \in 1..Len(Items) : WellFormed(Items[k])}

NaturalExact(game) ==
    /\ Normalize(domain, call.away_team) = Normalize(domain, game["away_team"])
    /\ Normalize(domain, call.home_team) = Normalize(domain, game["home_team"])

SwappedExact(game) ==
    /\ Normalize(domain, call.away_team) = Normalize(domain, game["home_team"])
    /\ Normalize(domain, call.home_team) = Normalize(domain, game["away_team"])

\* exact equality in an orientation the domain looks at
ExactFor(game) == NaturalExact(game) \/ (domain = "nfl" /\ SwappedExact(game))

ExactIndices == {k \in WellFormedIndices : ExactFor(Items[k])}

Least(S) == CHOOSE k \in S : \A j \in S : k <= j

\* twice the combined score of a candidate in each orientation (mascot)
NaturalScore(game) ==
    NFL_ratio[<<NFL_normalize(call.away_team), NFL_normalize(game["away_team"])>>]
    + NFL_ratio[<<NFL_normalize(call.home_team), NFL_normalize(game["home_team"])>>]

SwappedScore(game) ==
    NFL_ratio[<<NFL_normalize(call.away_team), NFL_normalize(game["home_team"])>>]
    + NFL_ratio[<<NFL_normalize(call.home_team), NFL_normalize(game["away_team"])>>]

BetterScore(game) ==
    IF NaturalScore(game) >= SwappedScore(game)
    THEN NaturalScore(game) ELSE SwappedScore(game)

\* the similarities of a candidate (institutional)
AwaySimilarity(game) ==
    NCAAF_token_set_ratio[<<NCAAF_normalize(call.away_team),
                            NCAAF_normalize(game["away_team"])>>]

HomeSimilarity(game) ==
    NCAAF_token_set_ratio[<<NCAAF_normalize(call.home_team),
                            NCAAF_normalize(game["home_team"])>>]

\* the candidate meets the configured threshold
MeetsThreshold(game) ==
    IF domain = "nfl"
    THEN BetterScore(game) >= 2 * fuzzy_threshold
    ELSE /\ AwaySimilarity(game) >= fuzzy_threshold
         /\ HomeSimilarity(game) >= fuzzy_threshold

\* C2: exact matches win over fuzzy ones.  In both matchers, when some
\* well-formed candidate normalizes to exact equality with the canonical
\* pair (natural orientation; in the mascot domain also the swapped one),
\* the record returned derives from the first such candidate in list order,
\* whatever candidates precede it.
C2_ExactWinsOverFuzzy ==
    (Done /\ StrCall /\ ExactIndices # {}) =>
        /\ ret.outcome = "return"
        /\ ret.index = Least(ExactIndices)
        /\ ret.value \in {Items[ret.index], reversed_game(Items[ret.index])}

\* C2 witness: the exact candidate was returned although a candidate that
\* only passes the fuzzy threshold precedes it.
C2_Witness ==
    /\ Done /\ StrCall /\ ExactIndices # {}
    /\ ret.index = Least(ExactIndices)
    /\ \E j \in WellFormedIndices :
          /\ j < Least(ExactIndices)
          /\ ~ExactFor(Items[j])
          /\ MeetsThreshold(Items[j])

\* the candidate list is a non-empty list, so that the scans run
Scans == call.games_list.type = "list" /\ call.games_list.truthy

\* the greatest (doubled) combined score over the well-formed candidates
\* and both orientations
MaxScore ==
    LET scores == {BetterScore(Items[k]) : k \in WellFormedIndices}
    IN  CHOOSE best \in scores : \A other \in scores : other <= best

\* C3 (as stated): in the mascot matcher, when no candidate matches exactly,
\* the record returned derives from a candidate whose combined score in one
\* of its two orientations equals the maximum combined score over all
\* well-formed candidates and both orientations, whenever that maximum is at
\* least fuzzy_threshold; None is returned when the maximum is below it.
\* Stated here for the thresholds 1..100: what happens at threshold 0 is the
\* subject of C5.
C3_GlobalBestReturned ==
    (Done /\ StrCall /\ domain = "nfl" /\ Scans /\ fuzzy_threshold >= 1
          /\ ExactIndices = {} /\ WellFormedIndices # {}) =>
        IF MaxScore >= 2 * fuzzy_threshold
        THEN /\ ret.index \in WellFormedIndices
             /\ BetterScore(Items[ret.index]) = MaxScore
             /\ ret.value \in {Items[ret.index], reversed_game(Items[ret.index])}
        ELSE ret.value = None

\* the field that holds, after an exchange of home and away, what a field held
Counterpart(key) ==
    CASE key = "away_team" -> "home_team"
      [] key = "home_team" -> "away_team"
      [] key = "predicted_score_away" -> "predicted_score_home"
      [] key = "predicted_score_home" -> "predicted_score_away"
      [] key = "spread_away" -> "spread_home"
      [] key = "spread_home" -> "spread_away"
      [] OTHER -> key

\* the record with teams, score pair and spread pair exchanged, every other
\* field equal
Exchanged(game) ==
    [key \in {Counterpart(field) : field \in DOMAIN game} |->
        game[Counterpart(key)]]

\* C4 (as stated): in the mascot matcher, a record selected in the swapped
\* orientation (exact or fuzzy pass) is the candidate with away_team and
\* home_team exchanged, the predicted_score pair exchanged and the spread
\* pair exchanged, every other field equal; a record selected in the natural
\* orientation equals the candidate.
C4_SwappedRecordExchanged ==
    (Done /\ domain = "nfl" /\ ret.index # 0) =>
        IF ret.swapped
        THEN ret.value = Exchanged(Items[ret.index])
        ELSE ret.value = Items[ret.index]

\* C5 (as stated): threshold boundary, for every fuzzy_threshold in 0..100
\* and a candidate list with no exact match.  A record is returned iff some
\* well-formed candidate reaches the threshold: in the mascot domain with the
\* combined score of its better orientation, in the institutional domain
\* with both its away and its home similarity.
C5_ThresholdBoundary ==
    (Done /\ StrCall /\ Scans /\ ExactIndices = {}) =>
        (ret.value # None <=>
            \E k \in WellFormedIndices : MeetsThreshold(Items[k]))

\* the candidates that pass the institutional fuzzy test
PassingIndices == {k \in WellFormedIndices : MeetsThreshold(Items[k])}

\* C6: in the institutional matcher, when no candidate matches exactly, the
\* first candidate in list order whose away and home similarity are both at
\* least fuzzy_threshold is returned (first match, not best match); None is
\* returned when no candidate satisfies both.
C6_FirstFuzzyMatch ==
    (Done /\ StrCall /\ domain = "ncaaf" /\ ExactIndices = {}) =>
        IF PassingIndices = {}
        THEN ret.outcome = "return" /\ ret.value = None /\ ret.index = 0
        ELSE /\ ret.index = Least(PassingIndices)
             /\ ret.value = Items[Least(PassingIndices)]

\* C6 witness: the first passing candidate was returned although a later
\* candidate has higher similarities.
C6_Witness ==
    /\ Done /\ StrCall /\ domain = "ncaaf" /\ ExactIndices = {}
    /\ PassingIndices # {}
    /\ ret.value = Items[Least(PassingIndices)]
    /\ \E j \in PassingIndices :
          /\ j > Least(PassingIndices)
          /\ AwaySimilarity(Items[j]) > AwaySimilarity(Items[Least(PassingIndices)])
          /\ HomeSimilarity(Items[j]) > HomeSimilarity(Items[Least(PassingIndices)])

\* C7: in the exact pass of the mascot matcher the candidate returned is the
\* first in list order that equals the canonical pair in the natural or in
\* the swapped orientation; the scan stops there, so an earlier
\* swapped-exact candidate wins over a later natural-exact one.
C7_FirstExactEitherOrientation ==
    (Done /\ StrCall /\ domain = "nfl" /\ ExactIndices # {}) =>
        LET first == Least(ExactIndices)
        IN  /\ ret.pass = "exact"
            /\ ret.index = first
            /\ ret.swapped = ~NaturalExact(Items[first])
            /\ ret.value["away_team"] =
                  Items[first][IF ret.swapped THEN "home_team" ELSE "away_team"]
            /\ ret.value["home_team"] =
                  Items[first][IF ret.swapped THEN "away_team" ELSE "home_team"]

\* C7 witness: a swapped-exact candidate was returned and a natural-exact
\* candidate follows it in the list.
C7_Witness ==
    /\ Done /\ StrCall /\ domain = "nfl"
    /\ ret.pass = "exact" /\ ret.swapped
    /\ \E j \in ExactIndices : j > ret.index /\ NaturalExact(Items[j])

\* the candidate list without its malformed entries
WithoutMalformed ==
    IF call.games_list.type = "list"
    THEN ListValue(SelectSeq(Items, WellFormed))
    ELSE call.games_list

\* C8: malformed candidates (an entry that is not a mapping, one without
\* away_team or home_team, one whose team name makes normalization raise)
\* never abort or change a scan: for canonical names that are str, the call
\* returns what it returns on the list with every malformed entry removed,
\* and it does not raise.
C8_MalformedCandidatesSkipped ==
    (Done /\ StrCall) =>
        LET clean == find_matching_game(domain, call.away_team, call.home_team,
                                        WithoutMalformed, fuzzy_threshold)
        IN  /\ ret.outcome = "return"
            /\ ret.value = clean.value
            /\ ret.swapped = clean.swapped
            /\ ret.pass = clean.pass
            /\ (ret.index = 0) = (clean.index = 0)

\* C8 witness: a record was returned from a candidate that a malformed
\* entry precedes.
C8_Witness ==
    /\ Done /\ StrCall /\ ret.outcome = "return" /\ ret.index > 1
    /\ \E j \in 1..(ret.index - 1) : ~WellFormed(Items[j])

\* the well-formed candidates that reach the greatest combined score in one
\* of their orientations
TopIndices == {k \in WellFormedIndices : BetterScore(Items[k]) = MaxScore}

\* several candidates, or both orientations of one candidate, reach it
TiedAtTop ==
    \/ Cardinality(TopIndices) >= 2
    \/ \E k \in TopIndices : NaturalScore(Items[k]) = SwappedScore(Items[k])

\* C22 (as stated): in the mascot fuzzy pass ties keep the earliest-found
\* best.  When several candidates, or both orientations of a candidate,
\* reach the same highest qualifying combined score, the record returned
\* derives from the first of them in list order, and in the natural
\* orientation when that candidate reaches the score in it.  Stated for the
\* thresholds 1..100 (threshold 0 is the subject of C5).
C22_TiesKeepEarliest ==
    (Done /\ StrCall /\ domain = "nfl" /\ Scans /\ fuzzy_threshold >= 1
          /\ ExactIndices = {} /\ WellFormedIndices # {}
          /\ MaxScore >= 2 * fuzzy_threshold /\ TiedAtTop) =>
        /\ ret.value \in {Items[Least(TopIndices)],
                          reversed_game(Items[Least(TopIndices)])}
        /\ NaturalScore(Items[Least(TopIndices)]) = MaxScore =>
              ret.value = Items[Least(TopIndices)]

\* C23: the institutional matcher never swaps.  Every record returned by
\* GameMatcher.find_matching_game is an element of the candidate list with
\* no field exchanged or altered, and it satisfies the natural-orientation
\* test, by exact equality or by both similarities >= fuzzy_threshold; a
\* candidate that equals the canonical pair only with home and away
\* exchanged is not returned by the exact pass.
C23_InstitutionalNeverSwaps ==
    (Done /\ StrCall /\ domain = "ncaaf" /\ ret.value # None) =>
        /\ ret.outcome = "return"
        /\ ret.index \in WellFormedIndices
        /\ ret.value = Items[ret.index]
        /\ ~ret.swapped
        /\ \/ NaturalExact(ret.value)
           \/ /\ AwaySimilarity(ret.value) >= fuzzy_threshold
              /\ HomeSimilarity(ret.value) >= fuzzy_threshold
        /\ ret.pass = "exact" => NaturalExact(ret.value)

\* C23 witness: the list starts with a candidate that equals the canonical
\* pair with home and away exchanged only and does not pass the fuzzy test;
\* the candidate after it was returned, unaltered.
C23_Witness ==
    /\ Done /\ StrCall /\ domain = "ncaaf"
    /\ Len(Items) = 2
    /\ WellFormed(Items[1])
    /\ SwappedExact(Items[1]) /\ ~NaturalExact(Items[1])
    /\ ~MeetsThreshold(Items[1])
    /\ ret.index = 2
    /\ ret.value = Items[2]

\* C24 (as stated): in the mascot fuzzy pass the record returned uses the
\* orientation with the higher combined score of the chosen candidate.  When
\* the candidate's swapped score is strictly greater than its natural score
\* the record is the swapped form, teams and payload exchanged; otherwise it
\* is the candidate in natural form.
C24_BetterOrientationReturned ==
    (Done /\ StrCall /\ domain = "nfl" /\ ret.pass = "fuzzy") =>
        IF SwappedScore(Items[ret.index]) > NaturalScore(Items[ret.index])
        THEN ret.value = Exchanged(Items[ret.index])
        ELSE ret.value = Items[ret.index]

(***************************************************************************)
(* 12. run(): load_all_data, match_games, save_results, the summary        *)
(***************************************************************************)

\* the constructor defaults of fuzzy_threshold
default_fuzzy_threshold(d) ==
    IF d = "nfl" THEN NFL_default_fuzzy_threshold
    ELSE NCAAF_default_fuzzy_threshold

Init ==
    /\ domain \in Domains
    /\ fuzzy_threshold = default_fuzzy_threshold(domain)
    /\ call = NoCall
    /\ ret = NotCalled
    /\ files \in RunFiles(domain)
    /\ sheets_data = EmptyDict
    /\ sources_data = [name \in SourceNames(domain) |-> EmptyDict]
    /\ results = EmptyDict
    /\ sheet_index = 0
    /\ attached_from = << >>
    /\ output_file = Absent
    /\ pc = "load_all_data"
    /\ outcome = "running"
    /\ NoWorkflow
    /\ NoFetch

run_constants == <<domain, fuzzy_threshold, call, ret, files,
                   orchestrator_vars, scraper_vars>>

\* load_all_data(): the sheet, then every source
LoadAllData ==
    /\ pc = "load_all_data"
    /\ sheets_data' = load_preferred(files["sheets"].llm, files["sheets"].raw)
    /\ sources_data' =
          [name \in SourceNames(domain) |->
              load_preferred(files[name].llm, files[name].raw)]
    /\ pc' = "match_games"
    /\ UNCHANGED <<run_constants, results, sheet_index, attached_from,
                   output_file, outcome>>

\* match_games(): one of the two guards returns {}
MatchGamesRejects ==
    /\ pc = "match_games"
    /\ match_games_rejects(sheets_data)
    /\ results' = EmptyDict
    /\ pc' = "save_results"
    /\ UNCHANGED <<run_constants, sheets_data, sources_data, sheet_index,
                   attached_from, output_file, outcome>>

\* a summary whose sheets_total counts the well-formed entries only
MatchGamesBegins_counts_well_formed ==
    /\ pc = "match_games"
    /\ ~match_games_rejects(sheets_data)
    /\ results' =
          [sheets_total |->
               Cardinality({n \in 1..Len(sheets_data["games"].items) :
                               ~SheetGameSkipped(sheets_data["games"].items[n])}),
           matched |-> [name \in SourceNames(domain) |-> 0],
           matched_sheets_rows |-> EmptyDict]
    /\ sheet_index' = 1
    /\ pc' = "for_sheet_game"
    /\ UNCHANGED <<run_constants, sheets_data, sources_data, attached_from,
                   output_file, outcome>>

\* match_games(): results and sources are set up
MatchGamesBegins ==
    /\ pc = "match_games"
    /\ ~match_games_rejects(sheets_data)
    /\ results' =
          [sheets_total |-> Len(sheets_data["games"].items),
           matched |-> [name \in SourceNames(domain) |-> 0],
           matched_sheets_rows |-> EmptyDict]
    /\ sheet_index' = 1
    /\ pc' = "for_sheet_game"
    /\ UNCHANGED <<run_constants, sheets_data, sources_data, attached_from,
                   output_file, outcome>>

\* the sheet game the loop stands at
InLoop ==
    /\ pc = "for_sheet_game"
    /\ sheet_index <= Len(sheets_data["games"].items)

sheet_game == sheets_data["games"].items[sheet_index]

\* a skip that leaves the loop instead of continuing with the next entry
SkipSheetGame_breaks ==
    /\ InLoop
    /\ SheetGameSkipped(sheet_game)
    /\ sheet_index' = Len(sheets_data["games"].items) + 1
    /\ UNCHANGED <<run_constants, sheets_data, sources_data, results,
                   attached_from, output_file, pc, outcome>>

\* an entry that is not a dict or lacks a key: continue
SkipSheetGame ==
    /\ InLoop
    /\ SheetGameSkipped(sheet_game)
    /\ sheet_index' = sheet_index + 1
    /\ UNCHANGED <<run_constants, sheets_data, sources_data, results,
                   attached_from, output_file, pc, outcome>>

\* an exception that is not caught per sheet game and ends run()
FailSheetGame_propagates ==
    /\ InLoop
    /\ ~SheetGameSkipped(sheet_game)
    /\ SheetGameRaises(sheet_game)
    /\ pc' = "done"
    /\ outcome' = "raised"
    /\ UNCHANGED <<run_constants, sheets_data, sources_data, results,
                   sheet_index, attached_from, output_file>>

\* an entry whose processing raises: caught, continue
FailSheetGame ==
    /\ InLoop
    /\ ~SheetGameSkipped(sheet_game)
    /\ SheetGameRaises(sheet_game)
    /\ sheet_index' = sheet_index + 1
    /\ UNCHANGED <<run_constants, sheets_data, sources_data, results,
                   attached_from, output_file, pc, outcome>>

\* an entry that is matched against every source and stored under its row
ProcessSheetGame ==
    /\ InLoop
    /\ ~SheetGameSkipped(sheet_game)
    /\ ~SheetGameRaises(sheet_game)
    /\ \E row_number \in {str_row_number(sheet_game["row_number"])} :
       \E matches \in {matches_of(domain, sheet_game, sources_data,
                                  fuzzy_threshold)} :
       \E matched_game \in {matched_game_of(domain, sheet_game, matches)} :
          /\ results' =
                [results EXCEPT
                   !.matched =
                       [name \in SourceNames(domain) |->
                           IF name \in DOMAIN matched_game
                           THEN results.matched[name] + 1
                           ELSE results.matched[name]],
                   !.matched_sheets_rows =
                       dict_set(results.matched_sheets_rows, row_number,
                                matched_game)]
          /\ attached_from' =
                dict_set(attached_from, row_number,
                         [game |-> sheet_index,
                          candidate |->
                              [name \in DOMAIN matched_game \ {"sheets"} |->
                                  matches[name].index]])
          /\ sources_data' =
                sources_after_matches(domain, sources_data, matches)
    /\ sheet_index' = sheet_index + 1
    /\ UNCHANGED <<run_constants, sheets_data, output_file, pc, outcome>>

\* the loop is over: match_games returns results
MatchGamesReturns ==
    /\ pc = "for_sheet_game"
    /\ sheet_index > Len(sheets_data["games"].items)
    /\ pc' = "save_results"
    /\ UNCHANGED <<run_constants, sheets_data, sources_data, results,
                   sheet_index, attached_from, output_file, outcome>>

\* save_results(results): the file is written, or the write raises and the
\* exception is logged
SaveResults ==
    /\ pc = "save_results"
    /\ \E written \in BOOLEAN :
          output_file' = IF written THEN Mapping(results) ELSE output_file
    /\ pc' = "summary"
    /\ UNCHANGED <<run_constants, sheets_data, sources_data, results,
                   sheet_index, attached_from, outcome>>

\* the summary of run(): NFLGameMatcher looks for 'sheets_total' first,
\* GameMatcher subscripts results, which raises KeyError on {}
PrintSummary ==
    /\ pc = "summary"
    /\ outcome' = IF domain = "ncaaf" /\ DOMAIN results = {}
                  THEN "raised" ELSE "returned"
    /\ pc' = "done"
    /\ UNCHANGED <<run_constants, sheets_data, sources_data, results,
                   sheet_index, attached_from, output_file>>

Next ==
    \/ LoadAllData
    \/ MatchGamesRejects
    \/ MatchGamesBegins
    \/ SkipSheetGame
    \/ FailSheetGame
    \/ ProcessSheetGame
    \/ MatchGamesReturns
    \/ SaveResults
    \/ PrintSummary

Spec == Init /\ [][Next]_vars

(***************************************************************************)
(* 13. Properties of a run (checked under Spec)                            *)
(***************************************************************************)

\* results['matched_sheets_rows'], once match_games has set results up
Rows == IF DOMAIN results = {} THEN EmptyDict ELSE results.matched_sheets_rows

\* the canonical list that match_games iterates over
SheetItems ==
    IF match_games_rejects(sheets_data) THEN << >>
    ELSE sheets_data["games"].items

\* the sources attached to the entry of a row
AttachedSources(row) == DOMAIN Rows[row] \ {"sheets"}

\* C1 (as stated): within one match_games run no source candidate is
\* attached to more than one canonical game.  For every source and any two
\* distinct entries of matched_sheets_rows, the records stored under that
\* source's key do not derive from the same element of that source's
\* candidate list.
C1_NoCandidateAttachedTwice ==
    \A row1 \in DOMAIN Rows : \A row2 \in DOMAIN Rows \ {row1} :
        \A name \in AttachedSources(row1) \cap AttachedSources(row2) :
            attached_from[row1].candidate[name] #
                attached_from[row2].candidate[name]

\* C9: for every entry of matched_sheets_rows and every configured source,
\* the source's key is present iff find_matching_game returned a record for
\* the entry's canonical game against that source's list; a key that is
\* present holds that one record (a dict, with its team names normalized),
\* an unmatched source has no key.
C9_SourceKeyIffMatch ==
    \A row \in DOMAIN Rows : \A name \in SourceNames(domain) :
        LET game == SheetItems[attached_from[row].game]
            match == find_matching_game(domain, game["away_team"],
                                        game["home_team"],
                                        source_games(sources_data[name]),
                                        fuzzy_threshold)
        IN  IF match.value = None
            THEN name \notin DOMAIN Rows[row]
            ELSE /\ name \in DOMAIN Rows[row]
                 /\ IsDict(Rows[row][name])
                 /\ Rows[row][name] = normalized_match(domain, match.value)

\* C9 witness: a finished run with an entry that has the key of one source
\* and lacks the key of another source whose list holds candidates.
C9_Witness ==
    /\ pc = "done"
    /\ \E row \in DOMAIN Rows : \E name \in SourceNames(domain) :
          /\ AttachedSources(row) # {}
          /\ name \notin DOMAIN Rows[row]
          /\ source_games(sources_data[name]).items # << >>

\* a file that load_json_file turns into {}: absent, not JSON, unreadable,
\* or JSON whose top level is not a mapping
Unloadable(file) == file.kind # "mapping"

\* the sources with neither an LLM-normalized nor a raw file that loads
MissingSources ==
    {name \in SourceNames(domain) :
        Unloadable(files[name].llm) /\ Unloadable(files[name].raw)}

\* the schedule that was loaded is a list of well-formed games of distinct
\* row numbers
ValidSchedule ==
    /\ ~match_games_rejects(sheets_data)
    /\ \A n \in 1..Len(SheetItems) :
          /\ ~SheetGameSkipped(SheetItems[n])
          /\ ~SheetGameRaises(SheetItems[n])
    /\ \A n1 \in 1..Len(SheetItems) : \A n2 \in 1..Len(SheetItems) :
          n1 # n2 => str_row_number(SheetItems[n1]["row_number"])
                     # str_row_number(SheetItems[n2]["row_number"])

\* C10: missing-source scenario.  When neither file of a source loads while
\* the schedule that was loaded holds n well-formed games of distinct row
\* numbers, the run completes, matched_sheets_rows has n entries, the
\* source's <source>_matched is 0 and no entry has the source's key.
C10_MissingSourceIsEmpty ==
    (pc = "done" /\ ValidSchedule) =>
        /\ outcome = "returned"
        /\ Cardinality(DOMAIN Rows) = Len(SheetItems)
        /\ \A name \in MissingSources :
              /\ results.matched[name] = 0
              /\ \A row \in DOMAIN Rows : name \notin DOMAIN Rows[row]

\* C10 witness: a finished run over two games in which a source has an LLM
\* file that is not JSON and a raw file that is not a mapping, and another
\* source is matched.
C10_Witness ==
    /\ pc = "done" /\ ValidSchedule /\ Len(SheetItems) = 2
    /\ outcome = "returned"
    /\ \E name \in MissingSources :
          /\ files[name].llm = InvalidJSON
          /\ files[name].raw = NotMapping
    /\ \E row \in DOMAIN Rows : AttachedSources(row) # {}

\* the canonical entries the loop has passed
PassedIndices ==
    {n \in 1..Len(SheetItems) : n < sheet_index}

\* a canonical entry that is skipped as malformed / whose processing raises /
\* that is matched and stored
IsMalformedEntry(n) == SheetGameSkipped(SheetItems[n])

IsRaisingEntry(n) ==
    ~SheetGameSkipped(SheetItems[n]) /\ SheetGameRaises(SheetItems[n])

IsProcessableEntry(n) ==
    ~SheetGameSkipped(SheetItems[n]) /\ ~SheetGameRaises(SheetItems[n])

RowKey(n) == str_row_number(SheetItems[n]["row_number"])

\* how often find_matching_game returns a record of a source for the
\* canonical entries in a set
MatchCount(name, entries) ==
    Cardinality({n \in entries :
        find_matching_game(domain, SheetItems[n]["away_team"],
                           SheetItems[n]["home_team"],
                           source_games(sources_data[name]),
                           fuzzy_threshold).value # None})

\* C11: a malformed canonical entry (not a mapping, or lacking away_team,
\* home_team or row_number) is entirely skipped.  No entry of
\* matched_sheets_rows was written by a malformed entry, the source counters
\* count the matches of the other entries only, and every well-formed entry
\* the loop has passed, before or after a malformed one, has its row in
\* matched_sheets_rows.
C11_MalformedCanonicalSkipped ==
    (\E m \in PassedIndices : IsMalformedEntry(m)) =>
        /\ \A row \in DOMAIN Rows : ~IsMalformedEntry(attached_from[row].game)
        /\ \A name \in SourceNames(domain) :
              results.matched[name] =
                  MatchCount(name, {n \in PassedIndices : IsProcessableEntry(n)})
        /\ \A n \in PassedIndices :
              IsProcessableEntry(n) => RowKey(n) \in DOMAIN Rows

\* C11 witness: a finished run in which a malformed entry comes first and
\* the well-formed entry after it is stored with a source attached.
C11_Witness ==
    /\ pc = "done"
    /\ Len(SheetItems) >= 2
    /\ IsMalformedEntry(1)
    /\ IsProcessableEntry(2)
    /\ RowKey(2) \in DOMAIN Rows
    /\ AttachedSources(RowKey(2)) # {}

\* match_games has returned its summary
MatchGamesReturned == pc \in {"save_results", "summary", "done"}

\* C12: an unexpected exception while one canonical game is processed (a
\* team name that is not a str) is contained at that game.  match_games
\* does not raise, the remaining canonical games are processed and appear
\* in matched_sheets_rows, and the summary is returned.
C12_ExceptionContainedPerGame ==
    (\E m \in 1..Len(SheetItems) : IsRaisingEntry(m)) =>
        /\ outcome # "raised"
        /\ \A n \in PassedIndices :
              IsProcessableEntry(n) =>
                  /\ RowKey(n) \in DOMAIN Rows
                  /\ IsProcessableEntry(attached_from[RowKey(n)].game)
        /\ MatchGamesReturned =>
              /\ sheet_index = Len(SheetItems) + 1
              /\ DOMAIN results # {}
              /\ results.sheets_total = Len(SheetItems)

\* C12 witness: a finished run in which the first entry raised and the
\* entry after it is stored.
C12_Witness ==
    /\ pc = "done" /\ outcome = "returned"
    /\ Len(SheetItems) >= 2
    /\ IsRaisingEntry(1)
    /\ IsProcessableEntry(2)
    /\ RowKey(2) \in DOMAIN Rows

\* C13 (as stated): run() never raises for data-quality issues.  For every
\* combination of absent, unparsable or wrongly shaped input files, an
\* absent or empty canonical schedule included, run() of GameMatcher and of
\* NFLGameMatcher returns.
C13_RunNeverRaises == outcome # "raised"

\* the data load_all_data keeps for the schedule or for a source
LoadedData(name) ==
    IF name = "sheets" THEN sheets_data ELSE sources_data[name]

\* a file that loads as a mapping with a non-empty "games" entry
HasGames(file) ==
    /\ file.kind = "mapping"
    /\ "games" \in DOMAIN file.data
    /\ file.data["games"].truthy

\* C14: source-file preference.  After load_all_data, for the canonical
\* schedule and for each source, the data used for matching is the content
\* of the LLM-normalized file when that file loads as a mapping with a
\* non-empty games entry, and otherwise what loading the raw-scraped file
\* gives (the empty mapping when the raw file does not load either).  The
\* files do not change during a run, so the data holds the same choice in
\* every later state, and the choice for one name depends on the two files
\* of that name only.
C14_SourceFilePreference ==
    pc # "load_all_data" =>
        \A name \in {"sheets"} \cup SourceNames(domain) :
            LoadedData(name) =
                IF HasGames(files[name].llm) THEN files[name].llm.data
                ELSE IF files[name].raw.kind = "mapping"
                     THEN files[name].raw.data
                ELSE EmptyDict

\* C14 witness: a finished run where one source fell back to its raw file
\* because the LLM file loads with an empty games list, while another
\* source uses its LLM file.
C14_Witness ==
    /\ pc = "done"
    /\ files[VariedSource(domain)].llm = GamesFile(<< >>)
    /\ HasGames(files[VariedSource(domain)].raw)
    /\ sources_data[VariedSource(domain)] = files[VariedSource(domain)].raw.data
    /\ HasGames(files[FixedSource(domain)].llm)
    /\ sources_data[FixedSource(domain)] = files[FixedSource(domain)].llm.data

\* the last element of a non-empty set of list positions
LastOf(positions) == CHOOSE n \in positions : \A m \in positions : m <= n

\* the passed canonical entries that were stored under a key
WritersOf(row) ==
    {n \in PassedIndices : IsProcessableEntry(n) /\ RowKey(n) = row}

\* the MatchedGame that match_games builds from a canonical entry
MatchedGameOfEntry(n) ==
    matched_game_of(domain, SheetItems[n],
                    matches_of(domain, SheetItems[n], sources_data,
                               fuzzy_threshold))

\* C15: row identifiers are coerced to strings and used as map keys, and
\* duplicates overwrite last-write-wins.  Every key of matched_sheets_rows
\* is a string, the key of a stored canonical entry is the string form of
\* its row number, and the entry under a key is the MatchedGame built from
\* the last canonical entry, in list order, whose row number has that
\* string form.
C15_StringKeysLastWriteWins ==
    /\ \A n \in PassedIndices :
          IsProcessableEntry(n) => RowKey(n) \in DOMAIN Rows
    /\ \A row \in DOMAIN Rows :
          /\ row \in STRING
          /\ WritersOf(row) # {}
          /\ Rows[row] = MatchedGameOfEntry(LastOf(WritersOf(row)))

\* C15 witness: a finished run whose schedule holds the JSON integer 3 and
\* the JSON string "3" as row numbers of two different games; the entry
\* under "3" is the MatchedGame of the second and not that of the first.
C15_Witness ==
    /\ pc = "done"
    /\ Len(SheetItems) = 2
    /\ IsProcessableEntry(1) /\ IsProcessableEntry(2)
    /\ SheetItems[1]["row_number"] = IntRow(3)
    /\ SheetItems[2]["row_number"] = StrRow("3")
    /\ DOMAIN Rows = {"3"}
    /\ Rows["3"] = MatchedGameOfEntry(2)
    /\ Rows["3"] # MatchedGameOfEntry(1)

\* C16: in every summary that match_games builds, sheets_total is the
\* length of the canonical games list, the entries that are skipped as
\* malformed or that fail during processing included; hence sheets_total
\* is at least the number of entries of matched_sheets_rows.
C16_SheetsTotalCountsEveryEntry ==
    DOMAIN results # {} =>
        /\ results.sheets_total = Len(sheets_data["games"].items)
        /\ results.sheets_total >= Cardinality(DOMAIN Rows)

\* C16 witness: a returned summary of a schedule of two entries, one of
\* them skipped or failing, with one entry in matched_sheets_rows.
C16_Witness ==
    /\ pc = "done" /\ outcome = "returned"
    /\ DOMAIN results # {}
    /\ results.sheets_total = 2
    /\ \E n \in 1..2 : IsMalformedEntry(n) \/ IsRaisingEntry(n)
    /\ Cardinality(DOMAIN Rows) = 1

\* C17: matching treats its inputs as read-only.  No step of match_games,
\* the calls of find_matching_game it makes with their swapped matches and
\* the name normalization of a matched record included, changes a field of
\* a canonical record or of a source candidate record.
C17_InputsReadOnly ==
    [][pc # "load_all_data" =>
          /\ sheets_data' = sheets_data
          /\ sources_data' = sources_data]_vars

\* C17 witness: a finished run that attached a record which differs from
\* the candidate it derives from (exchanged or with normalized names),
\* while that candidate is the record that was loaded.
C17_Witness ==
    /\ pc = "done"
    /\ \E row \in DOMAIN Rows : \E name \in AttachedSources(row) :
          LET k == attached_from[row].candidate[name]
              candidate == source_games(sources_data[name]).items[k]
              loaded == source_games(load_preferred(files[name].llm,
                                                    files[name].raw)).items[k]
          IN  /\ Rows[row][name] # candidate
              /\ candidate = loaded
              /\ Rows[row]["sheets"] #
                    [away_team |-> SheetItems[attached_from[row].game]["away_team"],
                     home_team |-> SheetItems[attached_from[row].game]["home_team"]]

\* a candidate record with every required field: both team names and both
\* fields of its score pair or of its spread pair
FullyPopulated(candidate) ==
    /\ IsDict(candidate)
    /\ {"away_team", "home_team"} \subseteq DOMAIN candidate
    /\ \/ {"predicted_score_away", "predicted_score_home"} \subseteq DOMAIN candidate
       \/ {"spread_away", "spread_home"} \subseteq DOMAIN candidate

\* C18 (as stated): only fully populated candidate records are eligible.
\* Every record attached to a canonical game in matched_sheets_rows
\* derives from a candidate that has away_team, home_team and both fields
\* of its score pair or spread pair.
C18_OnlyFullyPopulatedAttached ==
    \A row \in DOMAIN Rows : \A name \in AttachedSources(row) :
        FullyPopulated(source_games(sources_data[name])
                           .items[attached_from[row].candidate[name]])

\* C25 (as stated): in every summary returned by match_games and for every
\* source, <source>_matched is the number of entries of matched_sheets_rows
\* that contain the key of that source, for every canonical list, those
\* with malformed entries and with duplicate row numbers included.
C25_CountersCountEntries ==
    (MatchGamesReturned /\ DOMAIN results # {}) =>
        \A name \in SourceNames(domain) :
            results.matched[name] =
                Cardinality({row \in DOMAIN Rows : name \in DOMAIN Rows[row]})

(***************************************************************************)
(* 14. normalize_team_name applied to a name and then to its own result    *)
(***************************************************************************)

\* normalize_team_name of the matcher of a domain, computed on the
\* characters of the name
normalize_team_name(d, team_name) ==
    IF d = "nfl" THEN NFL_normalize_team_name(team_name)
    ELSE NCAAF_normalize_team_name(team_name)

\* The tokens names are built from.  Mascot domain: a word, mascots in
\* three spellings, and the empty token, which puts a name's spaces at its
\* ends or doubles them.  Institutional domain: a word, the campus keywords
\* Austin and Park, the two words of the keyword Los Angeles (listed before
\* Park), "at", the comma and the word University.
nfl_word_New == <<"N", "e", "w">>

nfl_word_Bills == <<"B", "i", "l", "l", "s">>

nfl_word_JETS == <<"J", "E", "T", "S">>

nfl_word_jets == <<"j", "e", "t", "s">>

nfl_word_empty == << >>

ncaaf_word_Cal == <<"C", "a", "l">>

ncaaf_word_Austin == <<"A", "u", "s", "t", "i", "n">>

ncaaf_word_Park == <<"P", "a", "r", "k">>

ncaaf_word_Los == <<"L", "o", "s">>

ncaaf_word_Angeles == <<"A", "n", "g", "e", "l", "e", "s">>

ncaaf_word_at == <<"a", "t">>

ncaaf_comma == <<",">>

ncaaf_word_University == <<"U", "n", "i", "v", "e", "r", "s", "i", "t", "y">>

NameTokens(d) ==
    IF d = "nfl"
    THEN {nfl_word_New, nfl_word_Bills, nfl_word_JETS, nfl_word_jets,
          nfl_word_empty}
    ELSE {ncaaf_word_Cal, ncaaf_word_Austin, ncaaf_word_Park, ncaaf_word_Los,
          ncaaf_word_Angeles, ncaaf_word_at, ncaaf_comma,
          ncaaf_word_University}

\* the most tokens in a name
MaxTokens == 4

\* the name of a token list: the tokens separated by single spaces, a comma
\* written directly after the token before it
RECURSIVE NameOf(_)
NameOf(tokens) ==
    IF tokens = << >> THEN << >>
    ELSE IF Len(tokens) = 1 THEN tokens[1]
    ELSE IF tokens[2] = ncaaf_comma
    THEN NameOf(<< tokens[1] \o ncaaf_comma >> \o Tail(Tail(tokens)))
    ELSE tokens[1] \o << " " >> \o NameOf(Tail(tokens))

Names(d) == {NameOf(tokens) : tokens \in SeqsUpTo(NameTokens(d), MaxTokens)}

NormalizeInit(d) ==
    /\ domain = d
    /\ fuzzy_threshold = default_fuzzy_threshold(d)
    /\ call \in {[team_name |-> name] : name \in Names(d)}
    /\ ret = NotCalled
    /\ files = << >>
    /\ sheets_data = EmptyDict
    /\ sources_data = << >>
    /\ results = EmptyDict
    /\ sheet_index = 0
    /\ attached_from = << >>
    /\ output_file = Absent
    /\ pc = "normalize"
    /\ outcome = "none"
    /\ NoWorkflow
    /\ NoFetch

\* normalize_team_name(team_name)
NormalizeTeamName ==
    /\ pc = "normalize"
    /\ ret' = [once |-> normalize_team_name(domain, call.team_name)]
    /\ pc' = "normalize_again"
    /\ UNCHANGED <<domain, fuzzy_threshold, call, files, sheets_data,
                   sources_data, results, sheet_index, attached_from,
                   output_file, outcome, orchestrator_vars, scraper_vars>>

\* normalize_team_name of what the first call returned
NormalizeAgain ==
    /\ pc = "normalize_again"
    /\ ret' = [once |-> ret.once,
               twice |-> normalize_team_name(domain, ret.once)]
    /\ pc' = "normalized_twice"
    /\ UNCHANGED <<domain, fuzzy_threshold, call, files, sheets_data,
                   sources_data, results, sheet_index, attached_from,
                   output_file, outcome, orchestrator_vars, scraper_vars>>

NormalizeNext == NormalizeTeamName \/ NormalizeAgain

NCAAFNormalizeSpec == NormalizeInit("ncaaf") /\ [][NormalizeNext]_vars

NFLNormalizeSpec == NormalizeInit("nfl") /\ [][NormalizeNext]_vars

(***************************************************************************)
(* 15. Properties of normalize_team_name                                   *)
(***************************************************************************)

\* C19 (as stated): institutional normalization is idempotent.  For every
\* name built from words, commas, ' at ' and campus keywords, a repeated
\* campus keyword and a later-listed keyword between the words of an
\* earlier-listed one included, normalizing the normalized name gives the
\* normalized name.  (Checked under NCAAFNormalizeSpec.)
C19_InstitutionalIdempotent ==
    (domain = "ncaaf" /\ pc = "normalized_twice") => ret.twice = ret.once

\* C20: mascot normalization is idempotent.  For every name, in any case,
\* of any number of space-separated tokens, its last token in or out of the
\* mascot list, normalizing the normalized name gives the normalized name.
\* (Checked under NFLNormalizeSpec.)
C20_MascotIdempotent ==
    (domain = "nfl" /\ pc = "normalized_twice") => ret.twice = ret.once

\* C20 witness: a name of three tokens in mixed case that ends in a mascot
\* was cut to the mascot in lower case, and the second call returned the
\* same.
C20_Witness ==
    /\ domain = "nfl" /\ pc = "normalized_twice"
    /\ call.team_name = NameOf(<<nfl_word_New, nfl_word_Bills, nfl_word_JETS>>)
    /\ ret.once = nfl_word_jets
    /\ ret.twice = nfl_word_jets

\* the result of the first call, once it was made
Normalized == pc \in {"normalize_again", "normalized_twice"}

AtDelimiter == << " ", "a", "t", " " >>

\* 'University at X' and 'University of X' for the word X = Cal
UniversityAtX == ncaaf_word_University \o AtDelimiter \o ncaaf_word_Cal

UniversityOfX ==
    ncaaf_word_University \o << " ", "o", "f", " " >> \o ncaaf_word_Cal

\* a name that holds 'University at X' with no comma and no other ' at '
\* before it
HoldsUniversityAtX(name) ==
    /\ Contains(name, UniversityAtX)
    /\ LET before == Slice(name, 1, Find(name, UniversityAtX) - 1)
       IN  /\ ~Contains(before, ncaaf_comma)
           /\ ~Contains(Lower(before \o ncaaf_word_University), AtDelimiter)

\* C21 (as stated): in institutional normalization the ' at ' truncation
\* is not applied to a 'University at X' pattern.  Every name containing
\* 'University at X' has the pattern rewritten to 'University of X' with X
\* kept in the result, while in a name without the pattern the first
\* case-insensitive ' at ' truncates the name.
C21_UniversityAtPreserved ==
    (domain = "ncaaf" /\ Normalized) =>
        /\ HoldsUniversityAtX(call.team_name) =>
              Contains(ret.once, UniversityOfX)
        /\ (/\ Contains(Lower(call.team_name), AtDelimiter)
            /\ ~Contains(Lower(call.team_name), UniversityAt)) =>
              ret.once =
                  NCAAF_normalize_team_name(
                      Slice(call.team_name, 1,
                            Find(Lower(call.team_name), AtDelimiter) - 1))


(***************************************************************************)
(* 16. The orchestrator's workflow (orchestrator.py)                       *)
(***************************************************************************)

matcher_vars == <<domain, fuzzy_threshold, call, ret, run_vars>>

\* no matcher is at work
MatcherIdle ==
    /\ domain = "ncaaf"
    /\ fuzzy_threshold = default_fuzzy_threshold("ncaaf")
    /\ call = << >>
    /\ ret = NotCalled
    /\ files = << >>
    /\ sheets_data = EmptyDict
    /\ sources_data = << >>
    /\ results = EmptyDict
    /\ sheet_index = 0
    /\ attached_from = << >>
    /\ output_file = Absent
    /\ pc = "idle"
    /\ outcome = "none"

\* langgraph's END
END == "__end__"

\* workflow.add_node: the nodes of the graph, in the order they are added
WorkflowNodes ==
    <<"read_sheets_ncaaf", "read_sheets_nfl", "scrape_ncaaf_concurrent",
      "scrape_nfl_concurrent", "process_teams_to_university",
      "process_teams_to_mascot", "match_ncaaf", "match_nfl", "chatgpt_ncaaf",
      "chatgpt_nfl", "update_sheets_ncaaf", "update_sheets_nfl">>

\* workflow.set_entry_point
entry_point == "read_sheets_ncaaf"

\* workflow.add_edge: the edges of the graph
workflow_edges ==
    {<<"read_sheets_ncaaf", "read_sheets_nfl">>,
     <<"read_sheets_nfl", "scrape_ncaaf_concurrent">>,
     <<"scrape_ncaaf_concurrent", "scrape_nfl_concurrent">>,
     <<"scrape_nfl_concurrent", "process_teams_to_university">>,
     <<"process_teams_to_university", "process_teams_to_mascot">>,
     <<"process_teams_to_mascot", "match_ncaaf">>,
     <<"match_ncaaf", "match_nfl">>,
     <<"match_nfl", "chatgpt_ncaaf">>,
     <<"chatgpt_ncaaf", "chatgpt_nfl">>,
     <<"chatgpt_nfl", "update_sheets_ncaaf">>,
     <<"update_sheets_ncaaf", "update_sheets_nfl">>,
     <<"update_sheets_nfl", END>>}

\* the node the graph runs after name
next_node(name) == CHOOSE target \in {WorkflowNodes[i] : i \in DOMAIN WorkflowNodes} \cup {END} : <<name, target>> \in workflow_edges

\* the scrapers the two scraping nodes run
ncaaf_scrapers == <<"dimers", "dratings", "espn", "oddshark">>

nfl_scrapers ==
    <<"dimers", "dratings", "espn", "fantasynerds", "florio_simms",
      "oddshark", "sportsline">>

\* the state app.invoke starts from (config is left out: no node writes it)
initial_state ==
    [step |-> "start", status |-> "initialized", errors |-> << >>,
     completed_steps |-> << >>]

\* an error message: the step that reports it and what it reports
ErrorMsg(name, what) == [step |-> name, error |-> what]

\* the dict a node returns from its try branch
step_completed(state, name, status, errors) == [state EXCEPT !.step = name, !.status = status, !.errors = @ \o errors, !.completed_steps = @ \o <<name>>]

\* a mutant of step_failed: the failed step is listed as completed
step_failed_listed_completed(state, name, error_msg) == [state EXCEPT !.step = name, !.status = "error", !.errors = @ \o <<error_msg>>, !.completed_steps = @ \o <<name>>]

\* the dict a node returns from its except branch and from its failure branch
step_failed(state, name, error_msg) == [state EXCEPT !.step = name, !.status = "error", !.errors = @ \o <<error_msg>>]

\* WorkflowState: what the graph holds once a node returned update; errors is
\* Annotated with operator.add, the other channels keep the last value
apply_writes(state, update) == [step |-> update.step, status |-> update.status, errors |-> state.errors \o update.errors, completed_steps |-> update.completed_steps]

\* how many error messages the model lets one invocation produce
MaxReportedErrors == 2

\* how many scrapers of one scraping node the model lets fail
MaxScraperErrors == 2

WithinBudget(messages) == Len(reported_errors) + Len(messages) <= MaxReportedErrors

\* the graph runs the node name, which returns update and reported messages
RunNode(name, update, messages) ==
    /\ node = name
    /\ WithinBudget(messages)
    /\ workflow_state' = apply_writes(workflow_state, update)
    /\ node' = next_node(name)
    /\ executed' = Append(executed, name)
    /\ reported_errors' = reported_errors \o messages
    /\ UNCHANGED <<matcher_vars, scraper_vars>>

\* a node whose step returns or raises
TryNode(name) ==
    \E raised \in BOOLEAN :
        IF raised
        THEN RunNode(name,
                     step_failed(workflow_state, name, ErrorMsg(name, "raised")),
                     <<ErrorMsg(name, "raised")>>)
        ELSE RunNode(name,
                     step_completed(workflow_state, name, "completed", << >>),
                     << >>)

\* a node whose step returns a success flag or raises
SuccessNode(name) ==
    \E result \in {"success", "failure", "raised"} :
        IF result = "success"
        THEN RunNode(name,
                     step_completed(workflow_state, name, "completed", << >>),
                     << >>)
        ELSE RunNode(name,
                     step_failed(workflow_state, name, ErrorMsg(name, result)),
                     <<ErrorMsg(name, result)>>)

\* a node that gathers its scrapers: the first failing of them report an
\* error, or asyncio.run raises
ScrapeNode(name, scrapers) ==
    \E raised \in BOOLEAN, failing \in 0..MaxScraperErrors :
        \E errors \in {[k \in 1..failing |-> ErrorMsg(name, scrapers[k])]} :
            IF raised
            THEN /\ failing = 0
                 /\ RunNode(name,
                            step_failed(workflow_state, name,
                                        ErrorMsg(name, "raised")),
                            <<ErrorMsg(name, "raised")>>)
            ELSE /\ failing <= Len(scrapers)
                 /\ RunNode(name,
                            step_completed(workflow_state, name,
                                IF Len(errors) = 0 THEN "completed"
                                ELSE "completed_with_errors", errors),
                            errors)

read_sheets_ncaaf == TryNode("read_sheets_ncaaf")

read_sheets_nfl == TryNode("read_sheets_nfl")

scrape_ncaaf_concurrent == ScrapeNode("scrape_ncaaf_concurrent", ncaaf_scrapers)

scrape_nfl_concurrent == ScrapeNode("scrape_nfl_concurrent", nfl_scrapers)

process_teams_to_university == TryNode("process_teams_to_university")

process_teams_to_mascot == TryNode("process_teams_to_mascot")

match_ncaaf == TryNode("match_ncaaf")

match_nfl == TryNode("match_nfl")

chatgpt_ncaaf == SuccessNode("chatgpt_ncaaf")

chatgpt_nfl == SuccessNode("chatgpt_nfl")

update_sheets_ncaaf == SuccessNode("update_sheets_ncaaf")

update_sheets_nfl == SuccessNode("update_sheets_nfl")

\* app.invoke(initial_state)
WorkflowInit ==
    /\ MatcherIdle
    /\ NoFetch
    /\ workflow_state = apply_writes([initial_state EXCEPT !.errors = << >>], initial_state)
    /\ node = entry_point
    /\ executed = << >>
    /\ reported_errors = << >>

WorkflowNext ==
    \/ read_sheets_ncaaf
    \/ read_sheets_nfl
    \/ scrape_ncaaf_concurrent
    \/ scrape_nfl_concurrent
    \/ process_teams_to_university
    \/ process_teams_to_mascot
    \/ match_ncaaf
    \/ match_nfl
    \/ chatgpt_ncaaf
    \/ chatgpt_nfl
    \/ update_sheets_ncaaf
    \/ update_sheets_nfl

WorkflowSpec == WorkflowInit /\ [][WorkflowNext]_vars

\* the graph runs a node whenever one is due
WorkflowLiveSpec == WorkflowSpec /\ WF_vars(WorkflowNext)


(***************************************************************************)
(* 17. Properties of the workflow                                          *)
(***************************************************************************)

Elements(seq) == {seq[i] : i \in DOMAIN seq}

IsPrefix(s, t) == Len(s) <= Len(t) /\ \A i \in 1..Len(s) : s[i] = t[i]

\* the steps in which an exception was raised
RaisedSteps == {m.step : m \in {e \in Elements(reported_errors) : e.error = "raised"}}

Occurrences(seq, x) == Cardinality({i \in DOMAIN seq : seq[i] = x})

\* the steps run in the order of the edges, none twice; a step that raised
\* left its message in errors, is not listed in completed_steps, set the
\* status to 'error', and the graph went on to the next node
C26_StepsInOrderErrorsContained ==
    /\ IsPrefix(executed, WorkflowNodes)
    /\ node = IF Len(executed) = Len(WorkflowNodes) THEN END
              ELSE WorkflowNodes[Len(executed) + 1]
    /\ \A name \in RaisedSteps :
        /\ name \in Elements(executed)
        /\ ErrorMsg(name, "raised") \in Elements(workflow_state.errors)
        /\ name \notin Elements(workflow_state.completed_steps)
    /\ \A name \in Elements(executed) \ RaisedSteps :
        \/ name \in Elements(workflow_state.completed_steps)
        \/ ErrorMsg(name, "failure") \in Elements(reported_errors)
    /\ (executed # << >> /\ executed[Len(executed)] \in RaisedSteps) =>
        /\ workflow_state.status = "error"
        /\ workflow_state.step = executed[Len(executed)]

\* C26: the workflow runs its 12 steps exactly once each in the fixed order
\* and then reaches END, whatever steps fail: an exception raised inside a
\* step is caught by that step, recorded as status 'error' with a message in
\* errors, the step is not added to completed_steps, and the next step runs
C26_WorkflowRunsEveryStep ==
    /\ []C26_StepsInOrderErrorsContained
    /\ <>(node = END /\ executed = WorkflowNodes)

\* the workflow reached END although match_ncaaf and a later step raised
C26_Witness ==
    /\ node = END
    /\ executed = WorkflowNodes
    /\ RaisedSteps = {"match_ncaaf", "update_sheets_ncaaf"}
    /\ Len(workflow_state.completed_steps) = Len(WorkflowNodes) - 2

\* C27: the final state's errors list contains each reported error message
\* exactly once, so its length equals the number of error messages produced
\* by failing steps and scrapers
C27_ErrorsListedOnce ==
    node = END =>
        /\ Len(workflow_state.errors) = Len(reported_errors)
        /\ \A m \in Elements(reported_errors) :
            Occurrences(workflow_state.errors, m) = 1


(***************************************************************************)
(* 18. BaseScraper.fetch_with_retry (utils/base_scraper.py)                *)
(***************************************************************************)

\* the URLs one scraper fetches concurrently
Urls == {"url_a", "url_b", "url_c"}

\* the largest max_retries a call is made with
MaxRetries == 2

\* the largest max_concurrent_requests a scraper is built with
MaxConcurrentRequests == 2

\* what one GET attempt can come to: a status, a timeout, another exception
\* (of session.get or of response.text())
AttemptOutcomes == {"200", "503", "TimeoutError", "Exception"}

\* the content of the page at url
Body(url) == [python_type |-> "str", content_of |-> url]

\* the call has not returned
NotReturned == [python_type |-> "pending"]

\* a call of fetch_with_retry(url, max_retries) that has not got its permit
NewFetch(url, max_retries) ==
    [url |-> url, max_retries |-> max_retries, pc |-> "waiting", attempt |-> 0,
     attempts |-> << >>, backoffs |-> << >>, result |-> NotReturned]

\* asyncio.Semaphore(max_concurrent_requests)
Semaphore(max_concurrent_requests) ==
    [max_concurrent_requests |-> max_concurrent_requests,
     value |-> max_concurrent_requests]

\* a mutant of locked: the semaphore never makes a call wait
never_locked(sem) == FALSE

\* Semaphore.locked(): a call entering 'async with self.semaphore' waits
locked(sem) == sem.value = 0

\* 'if attempt < max_retries - 1': a backoff follows the failed attempt
backoff_follows(attempt, max_retries) == attempt < max_retries - 1

FetchInit ==
    /\ MatcherIdle
    /\ NoWorkflow
    /\ \E max_concurrent_requests \in 1..MaxConcurrentRequests :
        semaphore = Semaphore(max_concurrent_requests)
    /\ fetch_calls \in {[url \in Urls |-> NewFetch(url, retries[url])] :
                            retries \in [Urls -> 0..MaxRetries]}

\* 'async with self.semaphore': the call gets a permit and enters the loop;
\* with range(max_retries) empty it returns None at once and releases
AcquirePermit(url) ==
    /\ fetch_calls[url].pc = "waiting"
    /\ ~locked(semaphore)
    /\ IF fetch_calls[url].max_retries > 0
       THEN /\ fetch_calls' = [fetch_calls EXCEPT ![url].pc = "attempt"]
            /\ semaphore' = [semaphore EXCEPT !.value = @ - 1]
       ELSE /\ fetch_calls' = [fetch_calls EXCEPT ![url].pc = "returned",
                                                  ![url].result = None]
            /\ UNCHANGED semaphore
    /\ UNCHANGED <<matcher_vars, orchestrator_vars>>

\* one pass of the try block: the random delay, the GET and its answer
Attempt(url) ==
    /\ fetch_calls[url].pc = "attempt"
    /\ \E answer \in AttemptOutcomes :
        \E this \in {fetch_calls[url]} :
            IF answer = "200"
            THEN /\ fetch_calls' =
                     [fetch_calls EXCEPT ![url].pc = "returned",
                         ![url].attempts = Append(@, answer),
                         ![url].result = Body(url)]
                 /\ semaphore' = [semaphore EXCEPT !.value = @ + 1]
            ELSE IF backoff_follows(this.attempt, this.max_retries)
            THEN /\ fetch_calls' =
                     [fetch_calls EXCEPT ![url].pc = "backoff",
                         ![url].attempts = Append(@, answer)]
                 /\ UNCHANGED semaphore
            ELSE /\ fetch_calls' =
                     [fetch_calls EXCEPT ![url].pc = "returned",
                         ![url].attempts = Append(@, answer),
                         ![url].attempt = @ + 1,
                         ![url].result = None]
                 /\ semaphore' = [semaphore EXCEPT !.value = @ + 1]
    /\ UNCHANGED <<matcher_vars, orchestrator_vars>>

\* 'await asyncio.sleep(wait_time)', then the next pass of the loop
Backoff(url) ==
    /\ fetch_calls[url].pc = "backoff"
    /\ fetch_calls' = [fetch_calls EXCEPT ![url].pc = "attempt",
                          ![url].backoffs = Append(@, fetch_calls[url].attempt),
                          ![url].attempt = @ + 1]
    /\ UNCHANGED <<semaphore, matcher_vars, orchestrator_vars>>

FetchNext ==
    \/ \E url \in Urls : AcquirePermit(url)
    \/ \E url \in Urls : Attempt(url)
    \/ \E url \in Urls : Backoff(url)

FetchSpec == FetchInit /\ [][FetchNext]_vars

(***************************************************************************)
(* 19. Properties of fetch_with_retry                                      *)
(***************************************************************************)

InAttemptLoop == {url \in Urls : fetch_calls[url].pc \in {"attempt", "backoff"}}

FailedAttempt(answer) == answer # "200"

\* the attempts after which a call slept a backoff, once it returned
BackoffsDue(this) == {k \in 0..(Len(this.attempts) - 1) : FailedAttempt(this.attempts[k + 1]) /\ k # this.max_retries - 1}

\* C28: fetch_with_retry makes at most max_retries GET attempts, returns the
\* body of the first attempt that answers 200 without further attempts,
\* returns None after max_retries failed attempts, never ends otherwise,
\* sleeps a backoff after each failed attempt except the last, and holds one
\* permit for the whole call, so that at most max_concurrent_requests calls
\* are in their attempt loop at any time
C28_FetchWithRetry ==
    /\ Cardinality(InAttemptLoop) <= semaphore.max_concurrent_requests
    /\ semaphore.value = semaphore.max_concurrent_requests - Cardinality(InAttemptLoop)
    /\ \A url \in Urls :
        \E this \in {fetch_calls[url]} :
            /\ Len(this.attempts) <= this.max_retries
            /\ \A k \in 1..(Len(this.attempts) - 1) :
                FailedAttempt(this.attempts[k])
            /\ this.pc \in {"waiting", "attempt", "backoff", "returned"}
            /\ this.pc = "waiting" => this.attempts = << >>
            /\ this.pc = "attempt" =>
                /\ \A k \in 1..Len(this.attempts) : FailedAttempt(this.attempts[k])
                /\ Len(this.backoffs) = Len(this.attempts)
            /\ this.pc = "returned" =>
                /\ this.result \in {None, Body(url)}
                /\ this.result = Body(url) <=>
                    /\ this.attempts # << >>
                    /\ this.attempts[Len(this.attempts)] = "200"
                /\ this.result = None <=>
                    /\ Len(this.attempts) = this.max_retries
                    /\ \A k \in 1..Len(this.attempts) :
                        FailedAttempt(this.attempts[k])
                /\ Elements(this.backoffs) = BackoffsDue(this)
                /\ Len(this.backoffs) = Cardinality(BackoffsDue(this))

\* one call gave up after two failed attempts and one backoff, one got the
\* page at its second attempt, and one waits for the only permit
C28_Witness ==
    /\ semaphore.max_concurrent_requests = 1
    /\ \E a, b, c \in Urls :
        /\ fetch_calls[a].result = None
        /\ Len(fetch_calls[a].attempts) = 2
        /\ fetch_calls[a].backoffs = <<0>>
        /\ fetch_calls[b].pc = "backoff"
        /\ fetch_calls[c].pc = "waiting"
        /\ locked(semaphore)


(***************************************************************************)
(* 20. SheetsReader.read_games_data (sheets/sheets_reader_ncaaf.py)        *)
(***************************************************************************)

\* the rows of the sheet the model fills
MaxSheetRows == 4

DigitChars == <<"1", "2", "3", "4", "5", "6", "7", "8", "9">>

EmptyCell == << >>

\* what column A and column B of a row can hold: nothing, or a team name
\* that tells the row, typed with a stray blank
AwayCells(row) == {EmptyCell, <<"A", DigitChars[row], " ">>}

HomeCells(row) == {EmptyCell, <<" ", "B", DigitChars[row]>>}

SheetRows(row) == [A : AwayCells(row), B : HomeCells(row)]

\* the sheets of MaxSheetRows rows
Sheets == {sheet \in [1..MaxSheetRows -> UNION {SheetRows(r) : r \in 1..MaxSheetRows}] : \A r \in 1..MaxSheetRows : sheet[r] \in SheetRows(r)}

\* the ranges read_games_data tries, in order, with the row each starts at
range_formats ==
    <<[range |-> "<sheet_name>!A3:B1000", first_row |-> 3],
      [range |-> "A3:B1000", first_row |-> 3],
      [range |-> "<sheet_name>!A:B", first_row |-> 1]>>

\* the last row of the sheet that holds a value, 0 when there is none
LastFilledRow(sheet) ==
    IF \E r \in DOMAIN sheet : sheet[r].A # EmptyCell \/ sheet[r].B # EmptyCell
    THEN CHOOSE r \in DOMAIN sheet :
            /\ sheet[r].A # EmptyCell \/ sheet[r].B # EmptyCell
            /\ \A q \in DOMAIN sheet :
                (sheet[q].A # EmptyCell \/ sheet[q].B # EmptyCell) => q <= r
    ELSE 0

\* a row as the values API gives it: trailing empty cells are left out
RowValues(cells) ==
    IF cells.B # EmptyCell THEN <<cells.A, cells.B>>
    ELSE IF cells.A # EmptyCell THEN <<cells.A>>
    ELSE << >>

\* GoogleSheetsClient.read_range: result.get('values', []), the rows from the
\* first row of the range to the last filled row
read_range(sheet, first_row) == [k \in 1..(LastFilledRow(sheet) - first_row + 1) |-> RowValues(sheet[first_row + k - 1])]

\* SheetsGame(away_team, home_team, row_number)
SheetsGame(away_team, home_team, row_number) == [away_team |-> away_team, home_team |-> home_team, row_number |-> row_number]

\* 'len(row) >= 2 and row[0] and row[1]'
both_teams_exist(row) == Len(row) >= 2 /\ row[1] # EmptyCell /\ row[2] # EmptyCell

\* the loop over enumerate(values, start=3), up to the first n rows
RECURSIVE games_of(_, _)
games_of(values, n) ==
    IF n = 0 THEN << >>
    ELSE IF both_teams_exist(values[n])
         THEN Append(games_of(values, n - 1),
                     SheetsGame(Strip(values[n][1]), Strip(values[n][2]),
                                n + 2))
         ELSE games_of(values, n - 1)

\* the ranges whose read does not raise and returns values
ReadableRanges(sheet, raises) == {k \in DOMAIN range_formats : ~raises[k] /\ read_range(sheet, range_formats[k].first_row) # << >>}

\* read_games_data(sheet_name)
read_games_data(sheet, raises) ==
    IF ReadableRanges(sheet, raises) = {}
    THEN [outcome |-> "returned", value |-> << >>, range_read |-> 0]
    ELSE [outcome |-> "returned",
          value |-> games_of(
              read_range(sheet, range_formats[Least(ReadableRanges(sheet, raises))].first_row),
              Len(read_range(sheet, range_formats[Least(ReadableRanges(sheet, raises))].first_row))),
          range_read |-> Least(ReadableRanges(sheet, raises))]

ReaderInit ==
    /\ domain = "ncaaf"
    /\ fuzzy_threshold = default_fuzzy_threshold("ncaaf")
    /\ call \in [sheet : Sheets, raises : [DOMAIN range_formats -> BOOLEAN]]
    /\ ret = NotCalled
    /\ files = << >>
    /\ sheets_data = EmptyDict
    /\ sources_data = << >>
    /\ results = EmptyDict
    /\ sheet_index = 0
    /\ attached_from = << >>
    /\ output_file = Absent
    /\ pc = "read_games_data"
    /\ outcome = "none"
    /\ NoWorkflow
    /\ NoFetch

ReadGamesData ==
    /\ pc = "read_games_data"
    /\ ret' = read_games_data(call.sheet, call.raises)
    /\ pc' = "games_read"
    /\ UNCHANGED <<domain, fuzzy_threshold, call, files, sheets_data,
                   sources_data, results, sheet_index, attached_from,
                   output_file, outcome, orchestrator_vars, scraper_vars>>

ReaderNext == ReadGamesData

ReaderSpec == ReaderInit /\ [][ReaderNext]_vars

(***************************************************************************)
(* 21. Properties of read_games_data                                       *)
(***************************************************************************)

\* the game is what the row row of the sheet holds, and that row is complete
ReadFromRow(sheet, game, row) ==
    /\ row \in DOMAIN sheet
    /\ sheet[row].A # EmptyCell
    /\ sheet[row].B # EmptyCell
    /\ game.away_team = Strip(sheet[row].A)
    /\ game.home_team = Strip(sheet[row].B)

\* C29: every game emitted by read_games_data carries as row_number the
\* spreadsheet row its two team cells were read from, whichever of the three
\* ranges was the first to return values, and rows with a missing or empty
\* team cell are omitted without shifting the row numbers of later games
C29_RowNumberIsSheetRow ==
    pc = "games_read" =>
        \A k \in DOMAIN ret.value :
            ReadFromRow(call.sheet, ret.value[k], ret.value[k].row_number)

\* the same for the reads that got their values from one of the two ranges
\* that start at row 3
C29_RowNumberIsSheetRowFromRow3 ==
    (pc = "games_read" /\ ret.range_read \in {1, 2}) =>
        \A k \in DOMAIN ret.value :
            ReadFromRow(call.sheet, ret.value[k], ret.value[k].row_number)

\* the sheet holds only its two header rows
C29_HeaderRowsOnly ==
    /\ pc = "games_read"
    /\ \A r \in DOMAIN call.sheet :
        (call.sheet[r].A # EmptyCell \/ call.sheet[r].B # EmptyCell) <=> r <= 2
    /\ \A k \in DOMAIN call.raises : ~call.raises[k]
    /\ Len(ret.value) = 2


(***************************************************************************)
(* 22. The score cells of the sheets updaters (sheets/sheets_updater_*.py) *)
(***************************************************************************)

\* Python values a prediction can hold under a score key
Num(n) == [python_type |-> "float", kind |-> "finite", num |-> n]

NaN == [python_type |-> "float", kind |-> "nan", num |-> 0]

Infinity == [python_type |-> "float", kind |-> "inf", num |-> 0]

StrValue(text) == [python_type |-> "str", text |-> text]

ListScore == [python_type |-> "list"]

ScoreNumbers == {0 - 1, 0, 27, 100, 101}

ScoreTexts == {"0", "27", "N/A", ""}

ScoreValues ==
    {None, NaN, Infinity, ListScore} \cup {Num(n) : n \in ScoreNumbers}
        \cup {StrValue(text) : text \in ScoreTexts}

ScoreKeys == {"predicted_score_away", "predicted_score_home"}

\* the dicts of one source (or of ChatGPT) for one row
SourcePredictions == UNION {[keys -> ScoreValues] : keys \in SUBSET ScoreKeys}

\* float(value): the number, or the exception it raises
float(value) ==
    IF value.python_type = "float" THEN [raises |-> "none", value |-> value]
    ELSE IF value.python_type = "str"
    THEN IF value.text = "0" THEN [raises |-> "none", value |-> Num(0)]
         ELSE IF value.text = "27" THEN [raises |-> "none", value |-> Num(27)]
         ELSE [raises |-> "ValueError", value |-> None]
    ELSE [raises |-> "TypeError", value |-> None]

\* str(num_val) of a float
str(num_val) == [python_type |-> "str", float_repr |-> <<num_val.num, ".", 0>>]

\* dict.get(key)
get(dict, key) == IF key \in DOMAIN dict THEN dict[key] ELSE None

\* validate_numeric_value(value, field_name)
validate_numeric_value(value) ==
    IF float(value).raises # "none" THEN None
    ELSE IF float(value).value.kind \in {"nan", "inf"} THEN None
    ELSE IF float(value).value.num < 0 \/ float(value).value.num > 100 THEN None
    ELSE str(float(value).value)

\* 'float(val) == 0'
float_is_zero(val) == float(val).value.kind = "finite" /\ float(val).value.num = 0

\* the try block that sets skip_<source>: an exception of float() leaves the
\* flag as it is
skip_source(away_val, home_val) ==
    IF away_val # None /\ float(away_val).raises # "none" THEN FALSE
    ELSE IF away_val # None /\ float_is_zero(away_val) THEN TRUE
    ELSE IF home_val # None /\ float(home_val).raises # "none" THEN FALSE
    ELSE home_val # None /\ float_is_zero(home_val)

\* no update is appended for the cell
NotWritten == [python_type |-> "not written"]

\* the value appended to updates for the cell of key, if any
cell_update(source, key) ==
    IF key \in DOMAIN source /\ validate_numeric_value(source[key]) # None
    THEN validate_numeric_value(source[key])
    ELSE NotWritten

\* the block of update_sheets_with_predictions for one source of one row
update_source(source) ==
    IF skip_source(get(source, "predicted_score_away"),
                   get(source, "predicted_score_home"))
    THEN [key \in ScoreKeys |-> NotWritten]
    ELSE [key \in ScoreKeys |-> cell_update(source, key)]

UpdaterInit ==
    /\ domain \in Domains
    /\ fuzzy_threshold = default_fuzzy_threshold(domain)
    /\ call \in [source : SourcePredictions]
    /\ ret = NotCalled
    /\ files = << >>
    /\ sheets_data = EmptyDict
    /\ sources_data = << >>
    /\ results = EmptyDict
    /\ sheet_index = 0
    /\ attached_from = << >>
    /\ output_file = Absent
    /\ pc = "update_source"
    /\ outcome = "none"
    /\ NoWorkflow
    /\ NoFetch

UpdateSource ==
    /\ pc = "update_source"
    /\ ret' = [outcome |-> "returned", value |-> update_source(call.source)]
    /\ pc' = "source_updated"
    /\ UNCHANGED <<domain, fuzzy_threshold, call, files, sheets_data,
                   sources_data, results, sheet_index, attached_from,
                   output_file, outcome, orchestrator_vars, scraper_vars>>

UpdaterNext == UpdateSource

UpdaterSpec == UpdaterInit /\ [][UpdaterNext]_vars

(***************************************************************************)
(* 23. Properties of the updaters                                          *)
(***************************************************************************)

\* the prediction holds the number 0 under key
EqualsZero(source, key) == key \in DOMAIN source /\ source[key] = Num(0)

\* the value is a finite number in [0, 100], given as a number or as text
FiniteInRange(value) ==
    /\ float(value).raises = "none"
    /\ float(value).value.kind = "finite"
    /\ float(value).value.num >= 0
    /\ float(value).value.num <= 100

\* C30: if either predicted_score_away or predicted_score_home equals 0 then
\* no cell of that source is written for that row, whatever the other value
\* is; when neither is 0, a cell is written only if its value is a finite
\* number in [0, 100]
C30_ZeroSkipsSource ==
    pc = "source_updated" =>
        IF \E key \in ScoreKeys : EqualsZero(call.source, key)
        THEN \A key \in ScoreKeys : ret.value[key] = NotWritten
        ELSE \A key \in ScoreKeys :
                ret.value[key] # NotWritten =>
                    /\ key \in DOMAIN call.source
                    /\ FiniteInRange(call.source[key])

\* the same with the away value numeric or absent
C30_ZeroSkipsSourceNumericAway ==
    (/\ pc = "source_updated"
     /\ float(get(call.source, "predicted_score_away")).raises = "none"
        \/ get(call.source, "predicted_score_away") = None) =>
        IF \E key \in ScoreKeys : EqualsZero(call.source, key)
        THEN \A key \in ScoreKeys : ret.value[key] = NotWritten
        ELSE \A key \in ScoreKeys :
                ret.value[key] # NotWritten =>
                    /\ key \in DOMAIN call.source
                    /\ FiniteInRange(call.source[key])

=============================================================================
